---------------------------- MODULE Spec2Model ----------------------------
(***************************************************************************)
(* Block-import and state-commit core of the client                        *)
(* (ethcore/src/client/client.rs).                                         *)
(*                                                                         *)
(* Threads run the client's operations concurrently.  The operations that  *)
(* write the chain take the import lock; readers take none.  The chain     *)
(* store, the journalled state DB, the trace DB, the KV store and the      *)
(* block queue are collaborators of the client whose code lives in other   *)
(* crates: they are modelled from their documented interface.              *)
(***************************************************************************)
EXTENDS Integers, Sequences, FiniteSets, TLC

(***************************************************************************)
(* Program constants and bounds                                            *)
(***************************************************************************)
MIN_HISTORY_SIZE == 8

\* `max_blocks_to_import` of import_verified_blocks.
max_blocks_to_import == 4

\* Length of the last-hashes window.
LAST_HASHES_LEN == 256

\* config.history of the modelled client (below the minimum: the fallback applies).
ConfigHistory == 3

\* Client::new: the pruning history actually used.
history == IF ConfigHistory < MIN_HISTORY_SIZE THEN MIN_HISTORY_SIZE ELSE ConfigHistory

\* Number of blocks of the main branch above genesis: long enough for the
\* initial tip to fall out of the pruning history (InitHeight + history + 1).
TrunkLen == 17

\* Height of the chain the database holds when the client is constructed.
InitHeight == 8

\* Most blocks the block queue holds at a time.
MaxQueue == 3

\* Most restore_db calls in a behaviour.
MaxRestores == 1

Threads == {"t1", "t2"}
NoThread == "none"

(***************************************************************************)
(* The universe of blocks.  A block is identified with its hash; hash 0 is *)
(* the zero hash (H256::default()).  Every block has a state root of its   *)
(* own, identified with the block.                                         *)
(***************************************************************************)
NoHash == 0
Genesis == 1
\* The main branch: the block of number n has hash n + 1.
Trunk == 1..(TrunkLen + 1)
TrunkAt(n) == n + 1
\* A competing child of the initial tip, with a higher difficulty.
TipSide == TrunkLen + 2
\* A side block as deep as the ancestry gate admits at the initial height;
\* it is also available with its receipts, as an ancient block.
DeepSide == TrunkLen + 3
\* A child of the initial tip whose declared state root does not match its
\* execution, and two descendants of it (themselves well-formed).
BadBlock == TrunkLen + 4
BadChild == TrunkLen + 5
BadGrandChild == TrunkLen + 6
\* A sibling of DeepSide as heavy as the main branch four blocks above the
\* initial tip: a short branch that outweighs a long one.
HeavySide == TrunkLen + 7
Blocks == 1..(TrunkLen + 6)
\* Ancient blocks, supplied with their receipts (old-block backfill).
AncientBlocks == {DeepSide}
\* The blocks at the tip: the next block of the main branch and its
\* competitor.
TipBlocks == {TrunkAt(InitHeight + 1), TipSide}
\* The blocks peers send while the chain is at its initial height or one
\* above it.
PeerBlocks == {b \in Trunk : b <= TrunkAt(InitHeight + 1)} \cup (Blocks \ Trunk)
Numbers == 0..(TrunkLen + 3)

DeepNumber == IF InitHeight >= history THEN InitHeight - history + 1 ELSE 1

Parent(b) ==
    CASE b = Genesis -> NoHash
      [] b \in Trunk -> b - 1
      [] b = TipSide -> TrunkAt(InitHeight)
      [] b = DeepSide -> TrunkAt(DeepNumber - 1)
      [] b = BadBlock -> TrunkAt(InitHeight)
      [] b = BadChild -> BadBlock
      [] b = BadGrandChild -> BadChild
      [] b = HeavySide -> TrunkAt(DeepNumber - 1)

Number(b) ==
    CASE b \in Trunk -> b - 1
      [] b = TipSide -> InitHeight + 1
      [] b = DeepSide -> DeepNumber
      [] b = BadBlock -> InitHeight + 1
      [] b = BadChild -> InitHeight + 2
      [] b = BadGrandChild -> InitHeight + 3
      [] b = HeavySide -> DeepNumber

Difficulty(b) ==
    CASE b = TipSide -> 2
      [] b = HeavySide -> InitHeight + 5 - DeepNumber
      [] OTHER -> 1

\* Number of transactions and gas used of a block (header.gas_used).
TxCount(b) == b % 3
GasUsed(b) == 21 * (b % 3)

\* Execution reproduces the header's state root (enact_verified and
\* verify_block_final succeed).
ExecOk(b) == b # BadBlock

RECURSIVE TotalDifficulty(_)
TotalDifficulty(b) ==
    IF b = Genesis THEN Difficulty(b) ELSE Difficulty(b) + TotalDifficulty(Parent(b))

\* <<b, parent(b), ..., genesis>>
RECURSIVE PathUp(_)
PathUp(b) == IF b = Genesis THEN <<b>> ELSE <<b>> \o PathUp(Parent(b))

Range(s) == {s[i] : i \in 1..Len(s)}
Reverse(s) == [i \in 1..Len(s) |-> s[Len(s) + 1 - i]]
Min(a, b) == IF a < b THEN a ELSE b
Max(a, b) == IF a < b THEN b ELSE a

\* b descends from a (strictly).
Descends(b, a) == a # b /\ a \in Range(PathUp(b))


(***************************************************************************)
(* KV store, journal DB, chain store and trace DB.                         *)
(*                                                                         *)
(* The content of the KV store is one record:                              *)
(*   journal    pending journal entries <<era, hash>> of the state column  *)
(*   roots      state roots the state DB contains                          *)
(*   latest_era latest era journalled                                      *)
(*   details    blocks the chain store knows (block details written)       *)
(*   hashes     block number -> canonical hash                             *)
(*   best       best block recorded in the chain column                    *)
(*   traces     blocks with an entry in the trace column                   *)
(* A batch (DBTransaction) is a sequence of staged operations over the     *)
(* columns; a write applies all of them in one step.                       *)
(***************************************************************************)
EmptyBatch == << >>

Op(kind, era, hash, best, enacted, retracted) ==
    [op |-> kind, era |-> era, hash |-> hash, best |-> best,
     enacted |-> enacted, retracted |-> retracted]

\* JournalDB::journal_under: stage the state delta under (era, hash).
journal_under(batch, era, hash) ==
    Append(batch, Op("journal", era, hash, NoHash, << >>, << >>))

\* JournalDB::mark_canonical: stage the finalisation of (era, hash).
mark_canonical(batch, era, hash) ==
    Append(batch, Op("canon", era, hash, NoHash, << >>, << >>))

\* TraceDB::import: stage the traces of block_hash.
trace_import(batch, hash) ==
    Append(batch, Op("trace", 0, hash, NoHash, << >>, << >>))

\* BlockChain::tree_route between two blocks whose ancestry is known.
TreeRoute(from, to) ==
    LET pf == PathUp(from)
        pt == PathUp(to)
        i == CHOOSE k \in 1..Len(pf) :
                 /\ pf[k] \in Range(pt)
                 /\ \A j \in 1..(k - 1) : pf[j] \notin Range(pt)
        anc == pf[i]
        j == CHOOSE k \in 1..Len(pt) : pt[k] = anc
    IN  [ancestor |-> anc,
         retracted |-> SubSeq(pf, 1, i - 1),
         enacted |-> Reverse(SubSeq(pt, 1, j - 1))]

NoRoute == [enacted |-> << >>, retracted |-> << >>]

\* The ImportRoute of inserting block b on top of the current best block:
\* the block becomes the best block iff its total difficulty is higher.
ImportRouteOf(best, b) ==
    IF TotalDifficulty(b) > TotalDifficulty(best)
    THEN LET r == TreeRoute(best, Parent(b))
         IN  [enacted |-> Append(r.enacted, b), retracted |-> r.retracted]
    ELSE NoRoute

\* BlockChain::insert_block: stage the chain writes of b; nothing is visible
\* before the batch is written and commit() is called.
insert_block(batch, best, b) ==
    LET route == ImportRouteOf(best, b)
        newbest == IF route.enacted # << >> THEN b ELSE NoHash
    IN  Append(batch, Op("chain", Number(b), b, newbest, route.enacted, route.retracted))

\* BlockChain::insert_unordered_block(.., None, false, true): no reorg logic,
\* never the best block.
insert_unordered_block(batch, b) ==
    Append(batch, Op("chain", Number(b), b, NoHash, << >>, << >>))

ApplyOp(d, o) ==
    CASE o.op = "journal" ->
            [d EXCEPT !.journal = @ \cup {<<o.era, o.hash>>},
                      !.roots = @ \cup {o.hash},
                      !.latest_era = Max(@, o.era)]
      [] o.op = "canon" ->
            \* every other entry of the era is dropped with its state; the
            \* canonical entry is finalised, which frees the state it replaced.
            LET era == {e \in d.journal : e[1] = o.era}
                dropped == {e[2] : e \in era \ {<<o.era, o.hash>>}}
                freed == IF <<o.era, o.hash>> \in era THEN {Parent(o.hash)} ELSE {}
            IN  [d EXCEPT !.journal = @ \ era,
                          !.roots = @ \ (dropped \cup freed)]
      [] o.op = "chain" ->
            [d EXCEPT !.details = @ \cup {o.hash},
                      !.best = IF o.best # NoHash THEN o.best ELSE @,
                      !.hashes = [n \in Numbers |->
                          IF \E e \in Range(o.enacted) : Number(e) = n
                          THEN CHOOSE e \in Range(o.enacted) : Number(e) = n
                          ELSE IF \E r \in Range(o.retracted) : Number(r) = n
                               THEN NoHash
                               ELSE @[n]]]
      [] o.op = "trace" ->
            [d EXCEPT !.traces = @ \cup {o.hash}]

RECURSIVE ApplyBatch(_, _)
ApplyBatch(d, batch) ==
    IF batch = << >> THEN d
    ELSE ApplyBatch(ApplyOp(d, Head(batch)), Tail(batch))

\* The database of a fresh client: genesis, journalled under era 0
\* (Client::new), and nothing else.
GenesisDb ==
    [journal |-> {<<0, Genesis>>}, roots |-> {Genesis}, latest_era |-> 0,
     details |-> {Genesis},
     hashes |-> [n \in Numbers |-> IF n = 0 THEN Genesis ELSE NoHash],
     best |-> Genesis, traces |-> {}]

(***************************************************************************)
(* Block queue: blocks enqueued and not yet drained (ready), blocks        *)
(* enqueued and not yet marked good or bad (processing), bad blocks.       *)
(***************************************************************************)
EmptyQueue == [ready |-> << >>, processing |-> {}, bad |-> {}]

\* BlockQueue::status
QueueStatus(q, h) ==
    IF h \in q.processing THEN "Queued"
    ELSE IF h \in q.bad THEN "Bad" ELSE "Unknown"

\* BlockQueue::import: duplicates collapse, bad blocks and children of bad
\* blocks are refused.
QueueImport(q, b) ==
    IF b \in q.processing THEN [queue |-> q, result |-> "AlreadyQueued"]
    ELSE IF b \in q.bad THEN [queue |-> q, result |-> "KnownBad"]
    ELSE IF Parent(b) \in q.bad
         THEN [queue |-> [q EXCEPT !.bad = @ \cup {b}], result |-> "KnownBad"]
         ELSE [queue |-> [q EXCEPT !.ready = Append(@, b),
                                   !.processing = @ \cup {b}],
               result |-> "Ok"]

\* BlockQueue::mark_as_bad: the hashes and, transitively, the queued blocks
\* that depend on them.
MarkAsBad(q, hashes) ==
    LET doomed == {b \in Range(q.ready) : \E h \in hashes : Descends(b, h)}
        NotDoomed(b) == b \notin doomed
    IN  [ready |-> SelectSeq(q.ready, NotDoomed),
         processing |-> q.processing \ (hashes \cup doomed),
         bad |-> q.bad \cup hashes \cup doomed]

\* BlockQueue::mark_as_good; the result of the call is "no block is left in
\* processing".
MarkAsGood(q, hashes) == [q EXCEPT !.processing = @ \ hashes]

(***************************************************************************)
(* Client state                                                            *)
(***************************************************************************)
VARIABLES
    db,           \* content of the KV store (buffered writes included)
    chain,        \* in-memory chain store: published best block, staged best block
    state_cache,  \* state DB cache: block of the canonical cache
    last_hashes,  \* cached last-hashes window
    queue,        \* block queue
    report,       \* ClientReport
    import_lock,  \* holder of the import lock
    restores,     \* number of restore_db calls so far
    pc,           \* position of each thread
    loc,          \* local variables of each thread's running operation
    mode,         \* Client::mode
    liveness,     \* Client::liveness
    sleep_state,  \* Client::sleep_state: last_activity, last_autosleep
    sleep_lock,   \* holder of the sleep_state mutex
    now,          \* the clock Instant::now() reads
    notified,     \* the start and stop notifications delivered so far
    mloc,         \* local variables of each thread's running mode operation
    queue_transactions,  \* Client::queue_transactions, the atomic counter
    io_channel,   \* NewTransactions messages sent and not yet handled
    tloc,         \* local variables of each thread's running queue_transactions
    unlocked,     \* AccountProvider::unlocked
    sstore,       \* the secret store: the password of each account
    aloc,         \* local variables of each thread's running account operation
    locks         \* holders of the state DB mutex, the chain, trace DB and db locks

\* The state of the sleep machine.
mvars == <<mode, liveness, sleep_state, sleep_lock, now, notified, mloc>>

\* The transaction counter with its channel, and the account provider.
tvars == <<queue_transactions, io_channel, tloc>>
avars == <<unlocked, sstore, aloc>>
xvars == <<tvars, avars, locks>>

vars == <<db, chain, state_cache, last_hashes, queue, report,
          import_lock, restores, pc, loc, mvars, xvars>>

\* No thread holds the state DB mutex (Client::state_db), the chain lock
\* (Client::chain, readers counted per thread), the trace DB lock or the db
\* lock.
NoLocks ==
    [state_db |-> NoThread, chain_writer |-> NoThread,
     chain_readers |-> [t \in Threads |-> 0], tracedb |-> NoThread,
     kvdb |-> NoThread]

NoNotification ==
    [sent |-> FALSE, imported |-> << >>, invalid |-> {}, enacted |-> {},
     retracted |-> {}, sealed |-> << >>]

ZeroReport == [blocks_imported |-> 0, transactions_applied |-> 0, gas_processed |-> 0]

\* Locals of an operation.  buffered, published and failed record what the
\* call has done so far: blocks whose batch it wrote, blocks whose chain
\* commit it made, blocks that failed check_and_close_block.
NoLocals ==
    [blk |-> NoHash, blocks |-> << >>, idx |-> 0,
     imported_blocks |-> << >>, invalid_blocks |-> {}, import_results |-> << >>,
     batch |-> EmptyBatch, route |-> NoRoute, caller |-> "none",
     is_empty |-> FALSE, ret |-> "none", imported |-> 0, env |-> NoHash,
     tip |-> 0,
     notification |-> NoNotification, report0 |-> ZeroReport,
     writes |-> 0, buffered |-> {}, published |-> {}, failed |-> {}]

(***************************************************************************)
(* Chain queries                                                           *)
(***************************************************************************)
\* BlockChain::is_known: the block's details are in the store.
is_known(h) == h \in db.details

best_block_number == Number(chain.best_block)

\* BlockChain::block_hash(number)
block_hash(n) == IF n \in Numbers THEN db.hashes[n] ELSE NoHash

\* Client::block_status(BlockID::Hash(h))
block_status(h) ==
    IF is_known(h) THEN "InChain" ELSE QueueStatus(queue, h)

\* Client::tree_route
tree_route(from, to) ==
    IF is_known(from) /\ is_known(to)
    THEN [some |-> TRUE, route |-> TreeRoute(from, to)]
    ELSE [some |-> FALSE, route |-> TreeRoute(Genesis, Genesis)]

(***************************************************************************)
(* Last-hashes window: the non-zero hashes from the front, and the length  *)
(* of the window (the rest of it is zero hashes).                          *)
(***************************************************************************)
EmptyWindow == [hashes |-> << >>, len |-> 0]

FrontIs(w, h) ==
    /\ w.len > 0
    /\ IF w.hashes = << >> THEN h = NoHash ELSE w.hashes[1] = h

RECURSIVE WalkParents(_, _)
WalkParents(h, known) ==
    IF h = NoHash THEN << >>
    ELSE IF h \in known THEN <<h>> \o WalkParents(Parent(h), known)
    ELSE <<h>>

\* Client::build_last_hashes: the cache after the call.
build_last_hashes(w, parent_hash) ==
    IF FrontIs(w, parent_hash) THEN w
    ELSE LET walk == WalkParents(parent_hash, db.details)
         IN  [hashes |-> SubSeq(walk, 1, Min(Len(walk), LAST_HASHES_LEN)),
              len |-> LAST_HASHES_LEN]

\* An update_last_hashes that pushes the hash whatever the front is and
\* never drops an entry.
update_last_hashes_unchecked(w, parent, hash) ==
    [hashes |-> <<hash>> \o w.hashes, len |-> w.len + 1]

\* Client::update_last_hashes
update_last_hashes(w, parent, hash) ==
    IF FrontIs(w, parent)
    THEN LET popped == IF w.len > LAST_HASHES_LEN - 1
                       THEN [hashes |-> IF Len(w.hashes) = w.len
                                        THEN SubSeq(w.hashes, 1, w.len - 1)
                                        ELSE w.hashes,
                             len |-> w.len - 1]
                       ELSE w
         IN  [hashes |-> <<hash>> \o popped.hashes, len |-> popped.len + 1]
    ELSE w

(***************************************************************************)
(* Pure parts of the import engine                                         *)
(***************************************************************************)
\* A report that counts every block twice.
accrue_block_twice(r, b) ==
    [blocks_imported |-> r.blocks_imported + 2,
     transactions_applied |-> r.transactions_applied + TxCount(b),
     gas_processed |-> r.gas_processed + GasUsed(b)]

\* ClientReport::accrue_block
accrue_block(r, b) ==
    [blocks_imported |-> r.blocks_imported + 1,
     transactions_applied |-> r.transactions_applied + TxCount(b),
     gas_processed |-> r.gas_processed + GasUsed(b)]

\* A gate that subtracts before it compares: below history the u64
\* difference wraps around to a number above every block number.
IsAncient_unguarded(b) ==
    IF best_block_number >= history
    THEN Number(b) <= best_block_number - history
    ELSE TRUE

\* The ancestry gate of check_and_close_block.
IsAncient(b) ==
    best_block_number >= history /\ Number(b) <= best_block_number - history

\* check_and_close_block reaches enact_verified (parent header found).
ReachesEnact(b) == ~IsAncient(b) /\ is_known(Parent(b))

\* check_and_close_block returns Ok: not ancient, family verification and
\* parent lookup succeed, the parent state opens, execution and final
\* verification succeed.
check_and_close_block(b) ==
    /\ ReachesEnact(b)
    /\ Parent(b) \in db.roots
    /\ ExecOk(b)

\* The hash -> bool map folded over the routes: enacted hashes map to TRUE,
\* retracted ones to FALSE, later insertions overwrite earlier ones.
MapInsert(m, k, v) == [x \in (DOMAIN m) \cup {k} |-> IF x = k THEN v ELSE m[x]]

RECURSIVE InsertAll(_, _, _)
InsertAll(m, hashes, v) ==
    IF hashes = << >> THEN m
    ELSE InsertAll(MapInsert(m, Head(hashes), v), Tail(hashes), v)

RECURSIVE FoldRoutes(_, _)
FoldRoutes(m, routes) ==
    IF routes = << >> THEN m
    ELSE FoldRoutes(InsertAll(InsertAll(m, Head(routes).enacted, TRUE),
                              Head(routes).retracted, FALSE),
                    Tail(routes))

EmptyMap == [x \in {} |-> TRUE]

\* A fold that keeps the first value inserted for a hash.
RECURSIVE InsertAbsent(_, _, _)
InsertAbsent(m, hashes, v) ==
    IF hashes = << >> THEN m
    ELSE InsertAbsent(IF Head(hashes) \in DOMAIN m THEN m
                      ELSE MapInsert(m, Head(hashes), v),
                      Tail(hashes), v)

RECURSIVE FoldRoutesFirst(_, _)
FoldRoutesFirst(m, routes) ==
    IF routes = << >> THEN m
    ELSE FoldRoutesFirst(InsertAbsent(InsertAbsent(m, Head(routes).enacted, TRUE),
                                      Head(routes).retracted, FALSE),
                         Tail(routes))

\* A calculate_enacted_retracted where the first occurrence of a hash wins.
calculate_enacted_retracted_first_wins(import_results) ==
    LET map == FoldRoutesFirst(EmptyMap, import_results)
    IN  [enacted |-> {k \in DOMAIN map : map[k]},
         retracted |-> {k \in DOMAIN map : ~map[k]}]

\* The enacted and the retracted hashes of all routes, with no map: a hash
\* enacted by one route and retracted by another is in both.
calculate_enacted_retracted_union(import_results) ==
    [enacted |-> UNION {Range(import_results[i].enacted) : i \in 1..Len(import_results)},
     retracted |-> UNION {Range(import_results[i].retracted) : i \in 1..Len(import_results)}]

\* A calculate_enacted_retracted that reads the routes the wrong way round:
\* what a route enacts is reported retracted and what it retracts enacted.
calculate_enacted_retracted_inverted(import_results) ==
    LET map == FoldRoutes(EmptyMap, import_results)
    IN  [enacted |-> {k \in DOMAIN map : ~map[k]},
         retracted |-> {k \in DOMAIN map : map[k]}]

\* Client::calculate_enacted_retracted.  The vectors come out of a HashMap
\* in no particular order: they are modelled as sets.
calculate_enacted_retracted(import_results) ==
    LET map == FoldRoutes(EmptyMap, import_results)
    IN  [enacted |-> {k \in DOMAIN map : map[k]},
         retracted |-> {k \in DOMAIN map : ~map[k]}]

\* A commit_block that keeps a history of one block: it marks the parent's
\* era canonical.
commit_block_batch_short_history(d, best, b) ==
    LET number == Number(b)
        journalled == journal_under(EmptyBatch, number, b)
        pruned == IF number >= 1 /\ d.hashes[number - 1] # NoHash
                  THEN mark_canonical(journalled, number - 1, d.hashes[number - 1])
                  ELSE journalled
    IN  trace_import(insert_block(pruned, best, b), b)

\* The batch commit_block stages for block b: the state journal entry, the
\* prune step, the chain insert and the trace import, in this order.
commit_block_batch(d, best, b) ==
    LET number == Number(b)
        journalled == journal_under(EmptyBatch, number, b)
        pruned == IF number >= history /\ d.hashes[number - history] # NoHash
                  THEN mark_canonical(journalled, number - history,
                                      d.hashes[number - history])
                  ELSE journalled
    IN  trace_import(insert_block(pruned, best, b), b)

\* The database after the main branch was imported up to height h.
RECURSIVE DbAtHeight(_)
DbAtHeight(h) ==
    IF h = 0 THEN GenesisDb
    ELSE LET d == DbAtHeight(h - 1)
         IN  ApplyBatch(d, commit_block_batch(d, d.best, TrunkAt(h)))

InitialDb == DbAtHeight(InitHeight)

\* StateDB::sync_cache: with is_canon the canonical cache moves to the block.
sync_cache(cache, hash, is_canon) ==
    IF is_canon THEN [cache EXCEPT !.canon = hash] ELSE cache

(***************************************************************************)
(* The sleep machine: mode, liveness and the sleep timers.                 *)
(***************************************************************************)
MAX_QUEUE_SIZE_TO_SLEEP_ON == 2

\* The timeouts of the modes, Dark(IdleTimeout) and
\* Passive(IdleTimeout, WakeAfter), and the last reading of the clock.
IdleTimeout == 1
WakeAfter == 1
MaxTime == 4

Modes == {"Active", "Passive", "Dark", "Off"}

\* Option<Instant>::None.
NoTime == -1

\* SleepState::new.
SleepStateNew(awake, at) ==
    [last_activity |-> IF awake THEN at ELSE NoTime,
     last_autosleep |-> IF awake THEN NoTime ELSE at]

\* The locals of a running tick, keep_alive or set_mode: the mode it read or
\* was given, the clock reading it took and where its wake_up or sleep
\* returns to.
NoModeLocals ==
    [op |-> "none", mode |-> "none", now |-> NoTime, ret |-> "none"]

\* Client::new, lines 215-231: the client starts awake unless its mode is
\* Dark or Off.  No notification has gone out.
ModeInit(m) ==
    LET awake == m \notin {"Dark", "Off"}
    IN  /\ mode = m
        /\ liveness = awake
        /\ sleep_state = SleepStateNew(awake, 0)
        /\ sleep_lock = NoThread
        /\ now = 0
        /\ notified = [last |-> "none", repeated |-> FALSE]
        /\ mloc = [t \in Threads |-> NoModeLocals]

(***************************************************************************)
(* The transaction counter and the account provider: constants and the     *)
(* state after construction.                                               *)
(***************************************************************************)
MAX_TX_QUEUE_SIZE == 4096

\* The NewTransactions messages the IO channel holds at most, and the
\* lengths of the transaction vectors peers hand over.
MaxPending == 3
TxBatchLens == {1, MAX_TX_QUEUE_SIZE}

\* The counter is a usize: fetch_sub below zero wraps around.  A negative
\* value c stands for the wrapped value 2^64 + c, which is above every
\* limit.
queue_is_full(c) == c < 0 \/ c > MAX_TX_QUEUE_SIZE

NoTxLocals == [len |-> 0]

\* Client::new, line 242: queue_transactions: AtomicUsize::new(0).
TxInit ==
    /\ queue_transactions = 0
    /\ io_channel = << >>
    /\ tloc = [t \in Threads |-> NoTxLocals]

\* The accounts of the secret store and the passwords callers try; every
\* account is created with the first password.
Accounts == {"a1"}
Passwords == {"p1", "p2"}

\* No entry in the unlocked map.
Locked == [unlock |-> "none", end |-> NoTime, password |-> "none"]

NoAccountLocals ==
    [op |-> "none", account |-> "none", password |-> "none",
     unlock |-> "none", end |-> NoTime, ret |-> "none"]

\* AccountProvider::new, lines 111-118: nothing is unlocked.
AccountInit ==
    /\ unlocked = [a \in Accounts |-> Locked]
    /\ sstore = [a \in Accounts |-> "p1"]
    /\ aloc = [t \in Threads |-> NoAccountLocals]

(***************************************************************************)
(* Initial state: the client constructed over its database.                *)
(***************************************************************************)
Init ==
    /\ db = InitialDb
    /\ chain = [best_block |-> InitialDb.best, pending_best |-> NoHash]
    /\ state_cache = [canon |-> NoHash]
    /\ last_hashes = EmptyWindow
    /\ queue = EmptyQueue
    /\ report = ZeroReport
    /\ import_lock = NoThread
    /\ restores = 0
    /\ pc = [t \in Threads |-> "idle"]
    /\ loc = [t \in Threads |-> NoLocals]
    /\ ModeInit("Active")
    /\ TxInit
    /\ AccountInit
    /\ locks = NoLocks

\* The client constructed over a database that holds the genesis block only.
InitGenesis ==
    /\ db = GenesisDb
    /\ chain = [best_block |-> GenesisDb.best, pending_best |-> NoHash]
    /\ state_cache = [canon |-> NoHash]
    /\ last_hashes = EmptyWindow
    /\ queue = EmptyQueue
    /\ report = ZeroReport
    /\ import_lock = NoThread
    /\ restores = 0
    /\ pc = [t \in Threads |-> "idle"]
    /\ loc = [t \in Threads |-> NoLocals]
    /\ ModeInit("Active")
    /\ TxInit
    /\ AccountInit
    /\ locks = NoLocks

Goto(t, p) == pc' = [pc EXCEPT ![t] = p]
SetLocals(t, l) == loc' = [loc EXCEPT ![t] = l]

(***************************************************************************)
(* import_block                                                            *)
(***************************************************************************)
\* An import_block that hands every block to the queue without looking at
\* the chain.
import_block_result_unchecked(b) == QueueImport(queue, b)

\* Result of Client::import_block(b) and the queue after it.
import_block_result(b) ==
    IF is_known(b)
    THEN [queue |-> queue, result |-> "AlreadyInChain"]
    ELSE IF block_status(Parent(b)) = "Unknown"
         THEN [queue |-> queue, result |-> "UnknownParent"]
         ELSE QueueImport(queue, b)

import_block(t, b) ==
    /\ pc[t] = "idle"
    /\ LET r == import_block_result(b)
       IN  /\ r.result = "Ok" => Cardinality(queue.processing) < MaxQueue
           /\ queue' = r.queue
           /\ SetLocals(t, [NoLocals EXCEPT !.caller = "import_block", !.ret = r.result])
    /\ Goto(t, "done")
    /\ UNCHANGED <<mvars, xvars>>
    /\ UNCHANGED <<db, chain, state_cache, last_hashes, report,
                   import_lock, restores>>

\* An operation that left a result returns.
Return(t) ==
    /\ pc[t] = "done"
    /\ Goto(t, "idle")
    /\ SetLocals(t, NoLocals)
    /\ UNCHANGED <<mvars, xvars>>
    /\ UNCHANGED <<db, chain, state_cache, last_hashes, queue, report,
                   import_lock, restores>>

(***************************************************************************)
(* commit_block                                                            *)
(***************************************************************************)
\* Lines 497-534: the batch and the route of block b, staged in the locals
\* of the committing thread and in the chain store's pending state.
commit_block_stage(l, b) ==
    [l EXCEPT !.blk = b,
              !.batch = commit_block_batch(db, chain.best_block, b),
              !.route = ImportRouteOf(chain.best_block, b),
              !.writes = 0]

StagedBest(route, b) == IF route.enacted # << >> THEN b ELSE NoHash

\* Lines 536-537: state.sync_cache(enacted, retracted, is_canon).
commit_block_sync_cache(t) ==
    /\ pc[t] = "cb_sync"
    /\ LET route == loc[t].route
           hash == loc[t].blk
           is_canon == route.enacted # << >> /\ route.enacted[Len(route.enacted)] = hash
       IN  state_cache' = sync_cache(state_cache, hash, is_canon)
    /\ Goto(t, "cb_write")
    /\ UNCHANGED <<mvars, xvars>>
    /\ UNCHANGED <<db, chain, last_hashes, queue, report, import_lock,
                   restores, loc>>

\* A write that takes only the state column's part of the batch.
commit_block_write_buffered_state_only(t) ==
    /\ pc[t] = "cb_write"
    /\ LET IsStateOp(o) == o.op \in {"journal", "canon"}
       IN  db' = ApplyBatch(db, SelectSeq(loc[t].batch, IsStateOp))
    /\ SetLocals(t, [loc[t] EXCEPT !.writes = @ + 1,
                                   !.buffered = @ \cup {loc[t].blk}])
    /\ Goto(t, "cb_commit")
    /\ UNCHANGED <<mvars, xvars>>
    /\ UNCHANGED <<chain, state_cache, last_hashes, queue, report, import_lock, restores>>

\* Line 539: self.db.read().write_buffered(batch).
commit_block_write_buffered(t) ==
    /\ pc[t] = "cb_write"
    /\ db' = ApplyBatch(db, loc[t].batch)
    /\ SetLocals(t, [loc[t] EXCEPT !.writes = @ + 1,
                                   !.buffered = @ \cup {loc[t].blk}])
    /\ Goto(t, "cb_commit")
    /\ UNCHANGED <<mvars, xvars>>
    /\ UNCHANGED <<chain, state_cache, last_hashes, queue, report, import_lock, restores>>

\* A commit_block that goes on without chain.commit().
commit_block_chain_commit_skipped(t) ==
    /\ pc[t] = "cb_commit"
    /\ Goto(t, "cb_hashes")
    /\ UNCHANGED <<mvars, xvars>>
    /\ UNCHANGED <<db, chain, state_cache, last_hashes, queue, report,
                   import_lock, restores, loc>>

\* Line 540: chain.commit() publishes the staged best block.
commit_block_chain_commit(t) ==
    /\ pc[t] = "cb_commit"
    /\ chain' = [best_block |-> IF chain.pending_best # NoHash
                                THEN chain.pending_best ELSE chain.best_block,
                 pending_best |-> NoHash]
    /\ SetLocals(t, [loc[t] EXCEPT !.published = @ \cup {loc[t].blk}])
    /\ Goto(t, "cb_hashes")
    /\ UNCHANGED <<mvars, xvars>>
    /\ UNCHANGED <<db, state_cache, last_hashes, queue, report,
                   import_lock, restores>>

\* Line 541: update_last_hashes(&parent, hash); commit_block returns the route.
commit_block_update_last_hashes(t) ==
    /\ pc[t] = "cb_hashes"
    /\ last_hashes' = update_last_hashes(last_hashes, Parent(loc[t].blk), loc[t].blk)
    /\ Goto(t, IF loc[t].caller = "import_verified_blocks" THEN "ivb_accrue" ELSE "isb_sync")
    /\ UNCHANGED <<mvars, xvars>>
    /\ UNCHANGED <<db, chain, state_cache, queue, report, import_lock,
                   restores, loc>>

(***************************************************************************)
(* import_verified_blocks                                                  *)
(***************************************************************************)
\* Lines 398-402: the lock is taken and the queue has nothing ready: return 0.
import_verified_blocks_empty(t) ==
    /\ pc[t] = "idle"
    /\ import_lock = NoThread
    /\ SetLocals(t, [NoLocals EXCEPT !.caller = "import_verified_blocks", !.ret = "0"])
    /\ Goto(t, "done")
    /\ UNCHANGED <<mvars, xvars>>
    /\ UNCHANGED <<db, chain, state_cache, last_hashes, queue, report,
                   import_lock, restores>>

\* Lines 398-404: the lock is taken and up to max_blocks_to_import ready
\* blocks are drained.
import_verified_blocks_drain(t) ==
    /\ pc[t] = "idle"
    /\ import_lock = NoThread
    /\ \E k \in 1..Min(max_blocks_to_import, Len(queue.ready)) :
          /\ SetLocals(t, [NoLocals EXCEPT !.caller = "import_verified_blocks",
                                           !.blocks = SubSeq(queue.ready, 1, k),
                                           !.idx = 1,
                                           !.report0 = report])
          /\ queue' = [queue EXCEPT !.ready = SubSeq(@, k + 1, Len(@))]
    /\ import_lock' = t
    /\ Goto(t, "ivb_loop")
    /\ UNCHANGED <<mvars, xvars>>
    /\ UNCHANGED <<db, chain, state_cache, last_hashes, report, restores>>

CurrentBlock(t) == loc[t].blocks[loc[t].idx]
InLoop(t) == pc[t] = "ivb_loop" /\ loc[t].idx <= Len(loc[t].blocks)

\* Lines 408-412: the parent is invalid in this batch.
import_verified_blocks_skip(t) ==
    /\ InLoop(t)
    /\ Parent(CurrentBlock(t)) \in loc[t].invalid_blocks
    /\ SetLocals(t, [loc[t] EXCEPT !.invalid_blocks = @ \cup {CurrentBlock(t)},
                                   !.idx = @ + 1])
    /\ UNCHANGED <<mvars, xvars>>
    /\ UNCHANGED <<db, chain, state_cache, last_hashes, queue, report,
                   import_lock, restores, pc>>

\* A staging that writes the batch through to the store at once.
import_verified_blocks_check_ok_written_through(t) ==
    /\ InLoop(t)
    /\ Parent(CurrentBlock(t)) \notin loc[t].invalid_blocks
    /\ check_and_close_block(CurrentBlock(t))
    /\ LET b == CurrentBlock(t)
           l == commit_block_stage([loc[t] EXCEPT !.imported_blocks = Append(@, b)], b)
       IN  /\ SetLocals(t, l)
           /\ chain' = [chain EXCEPT !.pending_best = StagedBest(l.route, b)]
           /\ last_hashes' = build_last_hashes(last_hashes, Parent(b))
           /\ db' = ApplyBatch(db, l.batch)
    /\ Goto(t, "cb_sync")
    /\ UNCHANGED <<mvars, xvars>>
    /\ UNCHANGED <<state_cache, queue, report, import_lock, restores>>

\* Lines 413-416: check_and_close_block succeeds; commit_block stages the batch.
import_verified_blocks_check_ok(t) ==
    /\ InLoop(t)
    /\ Parent(CurrentBlock(t)) \notin loc[t].invalid_blocks
    /\ check_and_close_block(CurrentBlock(t))
    /\ LET b == CurrentBlock(t)
           l == commit_block_stage([loc[t] EXCEPT !.imported_blocks = Append(@, b)], b)
       IN  /\ SetLocals(t, l)
           /\ chain' = [chain EXCEPT !.pending_best = StagedBest(l.route, b)]
           /\ last_hashes' = build_last_hashes(last_hashes, Parent(b))
    /\ Goto(t, "cb_sync")
    /\ UNCHANGED <<mvars, xvars>>
    /\ UNCHANGED <<db, state_cache, queue, report, import_lock, restores>>

\* A failure branch that forgets to record the block as invalid.
import_verified_blocks_check_failed_unrecorded(t) ==
    /\ InLoop(t)
    /\ Parent(CurrentBlock(t)) \notin loc[t].invalid_blocks
    /\ ~check_and_close_block(CurrentBlock(t))
    /\ LET b == CurrentBlock(t)
       IN  /\ SetLocals(t, [loc[t] EXCEPT !.failed = @ \cup {b},
                                          !.idx = @ + 1])
           /\ last_hashes' = IF ReachesEnact(b)
                             THEN build_last_hashes(last_hashes, Parent(b))
                             ELSE last_hashes
    /\ UNCHANGED <<mvars, xvars>>
    /\ UNCHANGED <<db, chain, state_cache, queue, report, import_lock,
                   restores, pc>>

\* Lines 420-422: check_and_close_block fails.
import_verified_blocks_check_failed(t) ==
    /\ InLoop(t)
    /\ Parent(CurrentBlock(t)) \notin loc[t].invalid_blocks
    /\ ~check_and_close_block(CurrentBlock(t))
    /\ LET b == CurrentBlock(t)
       IN  /\ SetLocals(t, [loc[t] EXCEPT !.invalid_blocks = @ \cup {b},
                                          !.failed = @ \cup {b},
                                          !.idx = @ + 1])
           /\ last_hashes' = IF ReachesEnact(b)
                             THEN build_last_hashes(last_hashes, Parent(b))
                             ELSE last_hashes
    /\ UNCHANGED <<mvars, xvars>>
    /\ UNCHANGED <<db, chain, state_cache, queue, report, import_lock,
                   restores, pc>>

\* Lines 417-419: the route is kept and the block is accrued to the report.
import_verified_blocks_accrue(t) ==
    /\ pc[t] = "ivb_accrue"
    /\ report' = accrue_block(report, loc[t].blk)
    /\ SetLocals(t, [loc[t] EXCEPT !.import_results = Append(@, loc[t].route),
                                   !.batch = EmptyBatch,
                                   !.route = NoRoute,
                                   !.blk = NoHash,
                                   !.idx = @ + 1])
    /\ Goto(t, "ivb_loop")
    /\ UNCHANGED <<mvars, xvars>>
    /\ UNCHANGED <<db, chain, state_cache, last_hashes, queue,
                   import_lock, restores>>

\* Lines 425-434: the queue is told the bad and the good blocks; the lock is
\* released.
import_verified_blocks_marks(t) ==
    /\ pc[t] = "ivb_loop"
    /\ loc[t].idx > Len(loc[t].blocks)
    /\ LET l == loc[t]
           marked == IF l.invalid_blocks # {}
                     THEN MarkAsBad(queue, l.invalid_blocks) ELSE queue
           q == MarkAsGood(marked, Range(l.imported_blocks))
       IN  /\ queue' = q
           /\ SetLocals(t, [l EXCEPT !.imported = Len(l.imported_blocks),
                                     !.is_empty = (q.processing = {}),
                                     !.blocks = << >>,
                                     !.idx = 0])
    /\ import_lock' = NoThread
    /\ Goto(t, "ivb_notify")
    /\ UNCHANGED <<mvars, xvars>>
    /\ UNCHANGED <<db, chain, state_cache, last_hashes, report, restores>>

\* An import_verified_blocks that notifies after every batch that imported a
\* block, whether or not the queue came out empty.
import_verified_blocks_notify_always(t) ==
    /\ pc[t] = "ivb_notify"
    /\ LET l == loc[t]
           er == calculate_enacted_retracted(l.import_results)
       IN  SetLocals(t, [l EXCEPT
               !.notification =
                   IF l.imported_blocks # << >>
                   THEN [sent |-> TRUE, imported |-> l.imported_blocks,
                         invalid |-> l.invalid_blocks, enacted |-> er.enacted,
                         retracted |-> er.retracted, sealed |-> << >>]
                   ELSE NoNotification,
               !.import_results = << >>])
    /\ Goto(t, "flush")
    /\ UNCHANGED <<mvars, xvars>>
    /\ UNCHANGED <<db, chain, state_cache, last_hashes, queue, report,
                   import_lock, restores>>

\* Lines 436-455: miner.chain_new_blocks and the subscribers' new_blocks.
import_verified_blocks_notify(t) ==
    /\ pc[t] = "ivb_notify"
    /\ LET l == loc[t]
           er == calculate_enacted_retracted(l.import_results)
       IN  SetLocals(t, [l EXCEPT
               !.notification =
                   IF l.imported_blocks # << >> /\ l.is_empty
                   THEN [sent |-> TRUE, imported |-> l.imported_blocks,
                         invalid |-> l.invalid_blocks, enacted |-> er.enacted,
                         retracted |-> er.retracted, sealed |-> << >>]
                   ELSE NoNotification,
               !.import_results = << >>])
    /\ Goto(t, "flush")
    /\ UNCHANGED <<mvars, xvars>>
    /\ UNCHANGED <<db, chain, state_cache, last_hashes, queue, report,
                   import_lock, restores>>

\* Lines 457-458 and 1306-1307: the KV store is flushed and the call returns.
flush(t) ==
    /\ pc[t] = "flush"
    /\ SetLocals(t, NoLocals)
    /\ Goto(t, "idle")
    /\ UNCHANGED <<mvars, xvars>>
    /\ UNCHANGED <<db, chain, state_cache, last_hashes, queue, report,
                   import_lock, restores>>

(***************************************************************************)
(* import_sealed_block                                                     *)
(***************************************************************************)
\* The miner seals executed blocks on top of blocks of the chain; a block it
\* hands over is new to the chain and to the queue.
Sealable(b) ==
    /\ ~is_known(b)
    /\ is_known(Parent(b))
    /\ b \notin queue.processing
    /\ b \notin queue.bad

\* Lines 1280-1289: the lock is taken; commit_block stages the batch.
import_sealed_block_lock(t, b) ==
    /\ pc[t] = "idle"
    /\ import_lock = NoThread
    /\ Sealable(b)
    /\ LET l == commit_block_stage([NoLocals EXCEPT !.caller = "import_sealed_block"], b)
       IN  /\ SetLocals(t, l)
           /\ chain' = [chain EXCEPT !.pending_best = StagedBest(l.route, b)]
    /\ import_lock' = t
    /\ Goto(t, "cb_sync")
    /\ UNCHANGED <<mvars, xvars>>
    /\ UNCHANGED <<db, state_cache, last_hashes, queue, report, restores>>

\* Lines 1291-1293: sync_cache(.., false); the lock is released.
import_sealed_block_sync(t) ==
    /\ pc[t] = "isb_sync"
    /\ state_cache' = sync_cache(state_cache, loc[t].blk, FALSE)
    /\ import_lock' = NoThread
    /\ Goto(t, "isb_notify")
    /\ UNCHANGED <<mvars, xvars>>
    /\ UNCHANGED <<db, chain, last_hashes, queue, report, restores, loc>>

\* Lines 1294-1305: the miner and the subscribers are notified.
import_sealed_block_notify(t) ==
    /\ pc[t] = "isb_notify"
    /\ LET l == loc[t]
           er == calculate_enacted_retracted(<<l.route>>)
       IN  SetLocals(t, [l EXCEPT
               !.notification =
                   [sent |-> TRUE, imported |-> <<l.blk>>, invalid |-> {},
                    enacted |-> er.enacted, retracted |-> er.retracted,
                    sealed |-> <<l.blk>>],
               !.batch = EmptyBatch,
               !.route = NoRoute])
    /\ Goto(t, "flush")
    /\ UNCHANGED <<mvars, xvars>>
    /\ UNCHANGED <<db, chain, state_cache, last_hashes, queue, report,
                   import_lock, restores>>

(***************************************************************************)
(* import_old_block (through import_block_with_receipts)                   *)
(***************************************************************************)
\* Lines 1105-1116 and 464-487: the order check, the lock, the verification
\* and the staging of the unordered insert.
import_old_block_lock(t, b) ==
    /\ pc[t] = "idle"
    /\ import_lock = NoThread
    /\ ~is_known(b)
    /\ block_status(Parent(b)) # "Unknown"
    /\ is_known(Parent(b))
    /\ b \notin queue.processing
    /\ SetLocals(t, [NoLocals EXCEPT !.caller = "import_old_block",
                                     !.blk = b,
                                     !.batch = insert_unordered_block(EmptyBatch, b)])
    /\ import_lock' = t
    /\ Goto(t, "iob_write")
    /\ UNCHANGED <<mvars, xvars>>
    /\ UNCHANGED <<db, chain, state_cache, last_hashes, queue, report, restores>>

\* Line 489: write_buffered(batch).
import_old_block_write(t) ==
    /\ pc[t] = "iob_write"
    /\ db' = ApplyBatch(db, loc[t].batch)
    /\ Goto(t, "iob_commit")
    /\ UNCHANGED <<mvars, xvars>>
    /\ UNCHANGED <<chain, state_cache, last_hashes, queue, report, import_lock,
                   restores, loc>>

\* Line 490: chain.commit().
import_old_block_commit(t) ==
    /\ pc[t] = "iob_commit"
    /\ chain' = [best_block |-> IF chain.pending_best # NoHash
                                THEN chain.pending_best ELSE chain.best_block,
                 pending_best |-> NoHash]
    /\ Goto(t, "iob_flush")
    /\ UNCHANGED <<mvars, xvars>>
    /\ UNCHANGED <<db, state_cache, last_hashes, queue, report,
                   import_lock, restores, loc>>

\* Lines 492-494: flush; the lock is released on return.
import_old_block_flush(t) ==
    /\ pc[t] = "iob_flush"
    /\ import_lock' = NoThread
    /\ SetLocals(t, NoLocals)
    /\ Goto(t, "idle")
    /\ UNCHANGED <<mvars, xvars>>
    /\ UNCHANGED <<db, chain, state_cache, last_hashes, queue, report, restores>>

(***************************************************************************)
(* restore_db                                                              *)
(***************************************************************************)
\* A restore_db that does not wait for the import lock.
restore_db_lock_unguarded(t) ==
    /\ pc[t] = "idle"
    /\ restores < MaxRestores
    /\ SetLocals(t, [NoLocals EXCEPT !.caller = "restore_db"])
    /\ import_lock' = t
    /\ Goto(t, "rd_swap")
    /\ UNCHANGED <<mvars, xvars>>
    /\ UNCHANGED <<db, chain, state_cache, last_hashes, queue, report, restores>>

\* Line 773: the import lock is taken.
restore_db_lock(t) ==
    /\ pc[t] = "idle"
    /\ import_lock = NoThread
    /\ restores < MaxRestores
    /\ SetLocals(t, [NoLocals EXCEPT !.caller = "restore_db"])
    /\ import_lock' = t
    /\ Goto(t, "rd_swap")
    /\ UNCHANGED <<mvars, xvars>>
    /\ UNCHANGED <<db, chain, state_cache, last_hashes, queue, report, restores>>

\* Lines 774-786: with the state DB, the chain, the trace DB and the KV store
\* locked, the backing database is replaced and the stores are rebuilt on it.
restore_db_swap(t) ==
    /\ pc[t] = "rd_swap"
    /\ db' = InitialDb
    /\ chain' = [best_block |-> InitialDb.best, pending_best |-> NoHash]
    /\ state_cache' = [canon |-> NoHash]
    /\ restores' = restores + 1
    /\ import_lock' = NoThread
    /\ SetLocals(t, NoLocals)
    /\ Goto(t, "idle")
    /\ UNCHANGED <<mvars, xvars>>
    /\ UNCHANGED <<last_hashes, queue, report>>

(***************************************************************************)
(* Client::state, a reader                                                 *)
(***************************************************************************)
\* Lines 612-613: the best block's header is read.
state_header(t) ==
    /\ pc[t] = "idle"
    /\ SetLocals(t, [NoLocals EXCEPT !.caller = "state", !.blk = chain.best_block])
    /\ Goto(t, "st_state")
    /\ UNCHANGED <<mvars, xvars>>
    /\ UNCHANGED <<db, chain, state_cache, last_hashes, queue, report,
                   import_lock, restores>>

\* Lines 614-619: State::from_existing on the header's state root.
state_from_existing(t) ==
    /\ pc[t] = "st_state"
    /\ IF loc[t].blk \in db.roots
       THEN /\ SetLocals(t, NoLocals)
            /\ Goto(t, "idle")
       ELSE /\ SetLocals(t, [NoLocals EXCEPT !.caller = "state", !.ret = "panic"])
            /\ Goto(t, "done")
    /\ UNCHANGED <<mvars, xvars>>
    /\ UNCHANGED <<db, chain, state_cache, last_hashes, queue, report,
                   import_lock, restores>>

(***************************************************************************)
(* Client::call at BlockID::Latest, a reader                               *)
(***************************************************************************)
\* Lines 792-803: block_header(Latest) is read and the environment of the
\* execution is built from it.
call_header(t) ==
    /\ pc[t] = "idle"
    /\ SetLocals(t, [NoLocals EXCEPT !.caller = "call", !.env = chain.best_block])
    /\ Goto(t, "call_state_header")
    /\ UNCHANGED <<mvars, xvars>>
    /\ UNCHANGED <<db, chain, state_cache, last_hashes, queue, report,
                   import_lock, restores>>

\* Line 805, state_at(Latest), lines 570-573, is Client::state; lines
\* 612-613: the best block's header is read.
call_state_header(t) ==
    /\ pc[t] = "call_state_header"
    /\ SetLocals(t, [loc[t] EXCEPT !.blk = chain.best_block])
    /\ Goto(t, "call_state")
    /\ UNCHANGED <<mvars, xvars>>
    /\ UNCHANGED <<db, chain, state_cache, last_hashes, queue, report,
                   import_lock, restores>>

\* Lines 614-619: State::from_existing on the header's state root.
call_state(t) ==
    /\ pc[t] = "call_state"
    /\ IF loc[t].blk \in db.roots
       THEN /\ Goto(t, "call_transact")
            /\ UNCHANGED loc
       ELSE /\ SetLocals(t, [NoLocals EXCEPT !.caller = "call", !.ret = "panic"])
            /\ Goto(t, "done")
    /\ UNCHANGED <<mvars, xvars>>
    /\ UNCHANGED <<db, chain, state_cache, last_hashes, queue, report,
                   import_lock, restores>>

\* Lines 808-824: the transaction is executed on the copy of the state under
\* the environment, and the call returns.
call_transact(t) ==
    /\ pc[t] = "call_transact"
    /\ SetLocals(t, NoLocals)
    /\ Goto(t, "idle")
    /\ UNCHANGED <<mvars, xvars>>
    /\ UNCHANGED <<db, chain, state_cache, last_hashes, queue, report,
                   import_lock, restores>>

(***************************************************************************)
(* Client::state_at(BlockID::Number(n)), a reader                          *)
(***************************************************************************)
\* JournalDB::is_pruned: the journal DB of the client prunes.
is_pruned == TRUE

\* An early exit that keeps the block history below the tip.
state_at_pruned_strict(best_number, block_number) ==
    is_pruned /\ best_number > block_number + history

\* The early exit for pruned blocks, line 585.
state_at_pruned(best_number, block_number) ==
    is_pruned /\ best_number >= block_number + history

\* Lines 576-581: block_number(id) is the number given; block_header(id) is
\* the header of the canonical block of that number, None when there is
\* none.
state_at_header(t, n) ==
    /\ pc[t] = "idle"
    /\ LET h == block_hash(n)
       IN  IF h = NoHash
           THEN /\ SetLocals(t, [NoLocals EXCEPT !.caller = "state_at", !.idx = n,
                                                 !.tip = best_block_number,
                                                 !.ret = "None"])
                /\ Goto(t, "sa_done")
           ELSE /\ SetLocals(t, [NoLocals EXCEPT !.caller = "state_at", !.idx = n,
                                                 !.blk = h])
                /\ Goto(t, "sa_open")
    /\ UNCHANGED <<mvars, xvars>>
    /\ UNCHANGED <<db, chain, state_cache, last_hashes, queue, report,
                   import_lock, restores>>

\* Lines 582-591: the state DB is cloned; a pruned block is None, otherwise
\* State::from_existing(db, root, ..).ok().
state_at_open(t) ==
    /\ pc[t] = "sa_open"
    /\ LET l == loc[t]
           found == ~state_at_pruned(best_block_number, l.idx) /\ l.blk \in db.roots
       IN  SetLocals(t, [l EXCEPT !.tip = best_block_number,
                                   !.ret = IF found THEN "Some" ELSE "None"])
    /\ Goto(t, "sa_done")
    /\ UNCHANGED <<mvars, xvars>>
    /\ UNCHANGED <<db, chain, state_cache, last_hashes, queue, report,
                   import_lock, restores>>

\* The caller has its answer.
state_at_return(t) ==
    /\ pc[t] = "sa_done"
    /\ SetLocals(t, NoLocals)
    /\ Goto(t, "idle")
    /\ UNCHANGED <<mvars, xvars>>
    /\ UNCHANGED <<db, chain, state_cache, last_hashes, queue, report,
                   import_lock, restores>>

(***************************************************************************)
(* Client::take_snapshot(writer, BlockID::Latest, progress)                *)
(***************************************************************************)
\* JournalDB::earliest_era: the lowest era the journal holds.
earliest_era(d) ==
    CHOOSE e \in {x[1] : x \in d.journal} :
        \A f \in {x[1] : x \in d.journal} : e <= f

\* Line 695: the look-back distance of a snapshot at the latest block.
snapshot_history == Min(history, 1000)

\* u64 subtraction in a build without overflow checks: a difference below
\* zero stands for the wrapped value 2^64 + (a - b).
wrapping_sub(a, b) == a - b

\* cmp::max over u64 where a number below zero stands for a wrapped value,
\* which is above every block number.
max_u64(a, b) == IF a < 0 THEN a ELSE IF b < 0 THEN b ELSE Max(a, b)

\* Lines 687-702: the journal DB is cloned, the best block number read (the
\* block number of BlockID::Latest is the best block number: the early exit
\* of line 691 is not taken) and the start number computed. The subtraction
\* best_block_number - history panics in a build with overflow checks and
\* wraps in one without when the best block number is below the distance.
take_snapshot_start(t) ==
    /\ pc[t] = "idle"
    /\ LET best == best_block_number
           l    == [NoLocals EXCEPT !.caller = "take_snapshot", !.tip = best]
       IN  \/ /\ best < snapshot_history
              /\ SetLocals(t, [l EXCEPT !.ret = "Panic"])
              /\ Goto(t, "ts_done")
           \/ /\ SetLocals(t, [l EXCEPT !.idx =
                      max_u64(earliest_era(db), wrapping_sub(best, snapshot_history))])
              /\ Goto(t, "ts_hash")
    /\ UNCHANGED <<mvars, xvars>>
    /\ UNCHANGED <<db, chain, state_cache, last_hashes, queue, report,
                   import_lock, restores>>

\* Lines 704-707 and 715-717: the hash of the start number is looked up; no
\* hash is Err(InvalidStartingBlock), otherwise the snapshot is taken from
\* that block.
take_snapshot_hash(t) ==
    /\ pc[t] = "ts_hash"
    /\ LET l == loc[t]
           h == block_hash(l.idx)
       IN  SetLocals(t, [l EXCEPT !.blk = h,
                                   !.ret = IF h = NoHash THEN "InvalidStartingBlock"
                                           ELSE "Ok"])
    /\ Goto(t, "ts_done")
    /\ UNCHANGED <<mvars, xvars>>
    /\ UNCHANGED <<db, chain, state_cache, last_hashes, queue, report,
                   import_lock, restores>>

\* The caller has its answer.
take_snapshot_return(t) ==
    /\ pc[t] = "ts_done"
    /\ SetLocals(t, NoLocals)
    /\ Goto(t, "idle")
    /\ UNCHANGED <<mvars, xvars>>
    /\ UNCHANGED <<db, chain, state_cache, last_hashes, queue, report,
                   import_lock, restores>>

(***************************************************************************)
(* calculate_enacted_retracted over given routes                           *)
(***************************************************************************)
\* The hashes the given routes are made of, the lists of distinct hashes a
\* route holds and the sequences of at most MaxRoutes routes.
MaxRoutes == 2
RouteHashes == {TrunkAt(InitHeight), TipSide}
HashLists ==
    {<< >>} \cup {<<h>> : h \in RouteHashes}
            \cup {<<g, h>> : <<g, h>> \in {p \in RouteHashes \X RouteHashes : p[1] # p[2]}}
ImportRoutes == [enacted : HashLists, retracted : HashLists]
RouteSeqs == UNION {[1..n -> ImportRoutes] : n \in 0..MaxRoutes}

\* Lines 364-388 applied to the routes in the caller's locals.
calculate_enacted_retracted_apply(t) ==
    /\ pc[t] = "cer_call"
    /\ LET er == calculate_enacted_retracted(loc[t].import_results)
       IN  SetLocals(t, [loc[t] EXCEPT !.notification =
               [NoNotification EXCEPT !.enacted = er.enacted,
                                      !.retracted = er.retracted]])
    /\ Goto(t, "cer_done")
    /\ UNCHANGED <<mvars, xvars>>
    /\ UNCHANGED <<db, chain, state_cache, last_hashes, queue, report,
                   import_lock, restores>>

(***************************************************************************)
(* BlockChainClient::last_hashes, a reader of the last-hashes window        *)
(***************************************************************************)
\* Lines 1196 and 295-302: the best block hash is read and the cached window
\* looked at; a window whose front is the hash is the answer.
last_hashes_cached(t) ==
    /\ pc[t] = "idle"
    /\ LET h == chain.best_block
       IN  IF FrontIs(last_hashes, h)
           THEN /\ SetLocals(t, [NoLocals EXCEPT !.caller = "last_hashes", !.blk = h,
                                                 !.blocks = last_hashes.hashes,
                                                 !.ret = "cached"])
                /\ Goto(t, "lh_done")
           ELSE /\ SetLocals(t, [NoLocals EXCEPT !.caller = "last_hashes", !.blk = h])
                /\ Goto(t, "lh_walk")
    /\ UNCHANGED <<mvars, xvars>>
    /\ UNCHANGED <<db, chain, state_cache, last_hashes, queue, report,
                   import_lock, restores>>

\* Lines 303-314: the walk over block_details parents under the chain's read
\* lock.
last_hashes_walk(t) ==
    /\ pc[t] = "lh_walk"
    /\ LET walk == WalkParents(loc[t].blk, db.details)
       IN  SetLocals(t, [loc[t] EXCEPT !.blocks =
               SubSeq(walk, 1, Min(Len(walk), LAST_HASHES_LEN))])
    /\ Goto(t, "lh_store")
    /\ UNCHANGED <<mvars, xvars>>
    /\ UNCHANGED <<db, chain, state_cache, last_hashes, queue, report,
                   import_lock, restores>>

\* Lines 315-317: the walk replaces the cached window and is the answer.
last_hashes_store(t) ==
    /\ pc[t] = "lh_store"
    /\ last_hashes' = [hashes |-> loc[t].blocks, len |-> LAST_HASHES_LEN]
    /\ SetLocals(t, [loc[t] EXCEPT !.ret = "walked"])
    /\ Goto(t, "lh_done")
    /\ UNCHANGED <<mvars, xvars>>
    /\ UNCHANGED <<db, chain, state_cache, queue, report, import_lock, restores>>

\* The caller has its answer.
last_hashes_return(t) ==
    /\ pc[t] = "lh_done"
    /\ SetLocals(t, NoLocals)
    /\ Goto(t, "idle")
    /\ UNCHANGED <<mvars, xvars>>
    /\ UNCHANGED <<db, chain, state_cache, last_hashes, queue, report,
                   import_lock, restores>>

(***************************************************************************)
(* The locks of restore_db, prepare_open_block, transaction_receipt and    *)
(* check_and_close_block, one step per acquisition                         *)
(***************************************************************************)
SetLocks(l) == locks' = l

\* A read lock is granted unless a writer holds the lock; a write lock when
\* nobody holds it; the state DB mutex when nobody holds it.
CanRead(l) == l.chain_writer = NoThread
CanWrite(l) == l.chain_writer = NoThread /\ \A u \in Threads : l.chain_readers[u] = 0
ReadChain(l, t) == [l EXCEPT !.chain_readers[t] = @ + 1]
UnreadChain(l, t) == [l EXCEPT !.chain_readers[t] = @ - 1]

\* What the steps below leave alone.
nonlock == <<queue, report, mvars, tvars, avars>>

\* Line 773: let _import_lock = self.import_lock.lock().
restore_db_take_import(t) ==
    /\ pc[t] = "idle"
    /\ import_lock = NoThread
    /\ restores < MaxRestores
    /\ import_lock' = t
    /\ SetLocals(t, [NoLocals EXCEPT !.caller = "restore_db"])
    /\ Goto(t, "rd_state_db")
    /\ UNCHANGED <<db, chain, state_cache, last_hashes, restores, locks, nonlock>>

\* Line 774: let mut state_db = self.state_db.lock().
restore_db_take_state_db(t) ==
    /\ pc[t] = "rd_state_db"
    /\ locks.state_db = NoThread
    /\ SetLocks([locks EXCEPT !.state_db = t])
    /\ Goto(t, "rd_chain")
    /\ UNCHANGED <<db, chain, state_cache, last_hashes, import_lock, restores, loc,
                   nonlock>>

\* Line 775: let mut chain = self.chain.write().
restore_db_take_chain(t) ==
    /\ pc[t] = "rd_chain"
    /\ CanWrite(locks)
    /\ SetLocks([locks EXCEPT !.chain_writer = t])
    /\ Goto(t, "rd_tracedb")
    /\ UNCHANGED <<db, chain, state_cache, last_hashes, import_lock, restores, loc,
                   nonlock>>

\* Line 776: let mut tracedb = self.tracedb.write().
restore_db_take_tracedb(t) ==
    /\ pc[t] = "rd_tracedb"
    /\ locks.tracedb = NoThread
    /\ SetLocks([locks EXCEPT !.tracedb = t])
    /\ Goto(t, "rd_db")
    /\ UNCHANGED <<db, chain, state_cache, last_hashes, import_lock, restores, loc,
                   nonlock>>

\* Lines 777-778: miner.clear(); let db = self.db.write().
restore_db_take_db(t) ==
    /\ pc[t] = "rd_db"
    /\ locks.kvdb = NoThread
    /\ SetLocks([locks EXCEPT !.kvdb = t])
    /\ Goto(t, "rd_rebuild")
    /\ UNCHANGED <<db, chain, state_cache, last_hashes, import_lock, restores, loc,
                   nonlock>>

\* Lines 779-786: the backing database is replaced, the stores are rebuilt on
\* it and the five locks are released on return.
restore_db_rebuild(t) ==
    /\ pc[t] = "rd_rebuild"
    /\ db' = InitialDb
    /\ chain' = [best_block |-> InitialDb.best, pending_best |-> NoHash]
    /\ state_cache' = [canon |-> NoHash]
    /\ restores' = restores + 1
    /\ import_lock' = NoThread
    /\ SetLocks([locks EXCEPT !.state_db = NoThread, !.chain_writer = NoThread,
                              !.tracedb = NoThread, !.kvdb = NoThread])
    /\ SetLocals(t, NoLocals)
    /\ Goto(t, "idle")
    /\ UNCHANGED <<last_hashes, nonlock>>

\* Lines 1243-1244: let chain = self.chain.read(); the best block hash.
prepare_open_block_chain(t) ==
    /\ pc[t] = "idle"
    /\ CanRead(locks)
    /\ SetLocks(ReadChain(locks, t))
    /\ SetLocals(t, [NoLocals EXCEPT !.caller = "prepare_open_block",
                                     !.blk = chain.best_block])
    /\ Goto(t, "po_state_db")
    /\ UNCHANGED <<db, chain, state_cache, last_hashes, import_lock, restores,
                   nonlock>>

\* Line 1250: self.state_db.lock(), a temporary of the statement that ends
\* at line 1256.
prepare_open_block_state_db(t) ==
    /\ pc[t] = "po_state_db"
    /\ locks.state_db = NoThread
    /\ SetLocks([locks EXCEPT !.state_db = t])
    /\ Goto(t, "po_build")
    /\ UNCHANGED <<db, chain, state_cache, last_hashes, import_lock, restores, loc,
                   nonlock>>

\* Lines 1251-1256: the header is read, build_last_hashes(h) reads the chain
\* once more and the open block is made; the state DB mutex is released at
\* the end of the statement.
prepare_open_block_build(t) ==
    /\ pc[t] = "po_build"
    /\ CanRead(locks)
    /\ last_hashes' = build_last_hashes(last_hashes, loc[t].blk)
    /\ SetLocks([locks EXCEPT !.state_db = NoThread])
    /\ Goto(t, "po_uncles")
    /\ UNCHANGED <<db, chain, state_cache, import_lock, restores, loc, nonlock>>

\* Lines 1258-1273: the uncles are added under the chain's read lock, which
\* is released on return.
prepare_open_block_return(t) ==
    /\ pc[t] = "po_uncles"
    /\ SetLocks(UnreadChain(locks, t))
    /\ SetLocals(t, NoLocals)
    /\ Goto(t, "idle")
    /\ UNCHANGED <<db, chain, state_cache, last_hashes, import_lock, restores,
                   nonlock>>

\* Line 1015: let chain = self.chain.read().
transaction_receipt_chain(t) ==
    /\ pc[t] = "idle"
    /\ CanRead(locks)
    /\ SetLocks(ReadChain(locks, t))
    /\ SetLocals(t, [NoLocals EXCEPT !.caller = "transaction_receipt"])
    /\ Goto(t, "tr_address")
    /\ UNCHANGED <<db, chain, state_cache, last_hashes, import_lock, restores,
                   nonlock>>

\* Lines 1016 and 734-742: transaction_address reads the chain under a read
\* lock of its own; lines 1017-1060: the receipt is built and the read lock
\* released on return.
transaction_receipt_address(t) ==
    /\ pc[t] = "tr_address"
    /\ CanRead(locks)
    /\ SetLocks(UnreadChain(locks, t))
    /\ SetLocals(t, NoLocals)
    /\ Goto(t, "idle")
    /\ UNCHANGED <<db, chain, state_cache, last_hashes, import_lock, restores,
                   nonlock>>

\* Line 398: import_verified_blocks takes the import lock before it calls
\* check_and_close_block.
check_and_close_block_import(t) ==
    /\ pc[t] = "idle"
    /\ import_lock = NoThread
    /\ import_lock' = t
    /\ SetLocals(t, [NoLocals EXCEPT !.caller = "check_and_close_block",
                                     !.blk = chain.best_block])
    /\ Goto(t, "cc_chain")
    /\ UNCHANGED <<db, chain, state_cache, last_hashes, restores, locks, nonlock>>

\* Line 324: let chain = self.chain.read().
check_and_close_block_chain(t) ==
    /\ pc[t] = "cc_chain"
    /\ CanRead(locks)
    /\ SetLocks(ReadChain(locks, t))
    /\ Goto(t, "cc_state_db")
    /\ UNCHANGED <<db, chain, state_cache, last_hashes, import_lock, restores, loc,
                   nonlock>>

\* Lines 340-346: for a child of the best block, build_last_hashes(parent)
\* and self.state_db.lock().boxed_clone_canon(parent), the mutex being
\* released at the end of the statement; the block is enacted and the read
\* lock, then the caller's import lock, are released.
check_and_close_block_state_db(t) ==
    /\ pc[t] = "cc_state_db"
    /\ locks.state_db = NoThread
    /\ last_hashes' = build_last_hashes(last_hashes, loc[t].blk)
    /\ SetLocks(UnreadChain(locks, t))
    /\ import_lock' = NoThread
    /\ SetLocals(t, NoLocals)
    /\ Goto(t, "idle")
    /\ UNCHANGED <<db, chain, state_cache, restores, nonlock>>

(***************************************************************************)
(* tick, keep_alive, set_mode, wake_up and sleep                           *)
(***************************************************************************)
\* What the sleep machine leaves alone, the block queue apart.
ivars == <<db, chain, state_cache, last_hashes, report, import_lock, restores, loc,
           xvars>>

SetModeLocals(t, l) == mloc' = [mloc EXCEPT ![t] = l]

\* BlockQueueInfo::total_queue_size: the blocks in the queue that were not
\* drained yet.
total_queue_size(q) == Len(q.ready)

\* ChainNotify::start or stop goes out to the subscribers.
Fire(e) ==
    notified' = [last |-> e, repeated |-> notified.repeated \/ notified.last = e]

\* The clock moves on.
time_passes ==
    /\ now < MaxTime
    /\ now' = now + 1
    /\ UNCHANGED <<ivars, queue, pc, mode, liveness, sleep_state, sleep_lock,
                   notified, mloc>>

\* Client::clear_queue, lines 1123-1125.
clear_queue(t) ==
    /\ pc[t] = "idle"
    /\ queue.ready # << >>
    /\ queue' = EmptyQueue
    /\ UNCHANGED <<ivars, pc, mvars>>

\* A sleep that does not ask the queue for its size.
sleep_load_unchecked(t) ==
    /\ pc[t] = "sleep_load"
    /\ IF ~liveness THEN Goto(t, mloc[t].ret) ELSE Goto(t, "sleep_store")
    /\ UNCHANGED <<ivars, queue, mvars>>

\* Client::sleep, lines 752-755: the liveness flag is loaded, then the queue
\* is asked for its size; a client that is asleep or busy is left alone.
sleep_load(t) ==
    /\ pc[t] = "sleep_load"
    /\ IF ~liveness
       THEN Goto(t, mloc[t].ret)
       ELSE IF total_queue_size(queue) <= MAX_QUEUE_SIZE_TO_SLEEP_ON
            THEN Goto(t, "sleep_store")
            ELSE Goto(t, mloc[t].ret)
    /\ UNCHANGED <<ivars, queue, mvars>>

\* Line 756: liveness.store(false).
sleep_store(t) ==
    /\ pc[t] = "sleep_store"
    /\ liveness' = FALSE
    /\ Goto(t, "sleep_notify")
    /\ UNCHANGED <<ivars, queue, mode, sleep_state, sleep_lock, now,
                   notified, mloc>>

\* Line 757: notify stop.
sleep_notify(t) ==
    /\ pc[t] = "sleep_notify"
    /\ Fire("stop")
    /\ Goto(t, mloc[t].ret)
    /\ UNCHANGED <<ivars, queue, mode, liveness, sleep_state, sleep_lock,
                   now, mloc>>

\* Client::wake_up, line 745: the liveness flag is loaded; a client that is
\* awake is left alone.
wake_up_load(t) ==
    /\ pc[t] = "wake_up_load"
    /\ IF liveness THEN Goto(t, mloc[t].ret) ELSE Goto(t, "wake_up_store")
    /\ UNCHANGED <<ivars, queue, mvars>>

\* Line 746: liveness.store(true).
wake_up_store(t) ==
    /\ pc[t] = "wake_up_store"
    /\ liveness' = TRUE
    /\ Goto(t, "wake_up_notify")
    /\ UNCHANGED <<ivars, queue, mode, sleep_state, sleep_lock, now,
                   notified, mloc>>

\* Line 747: notify start.
wake_up_notify(t) ==
    /\ pc[t] = "wake_up_notify"
    /\ Fire("start")
    /\ Goto(t, mloc[t].ret)
    /\ UNCHANGED <<ivars, queue, mode, liveness, sleep_state, sleep_lock,
                   now, mloc>>

\* Client::tick, line 641: the mode is cloned out of its lock.  In Active and
\* Off the tick does nothing more.
tick_read_mode(t) ==
    /\ pc[t] = "idle"
    /\ mode \in {"Dark", "Passive"}
    /\ SetModeLocals(t, [NoModeLocals EXCEPT !.op = "tick", !.mode = mode])
    /\ Goto(t, "tick_lock")
    /\ UNCHANGED <<ivars, queue, mode, liveness, sleep_state, sleep_lock,
                   now, notified>>

\* Lines 643-647 and 652-656: the tick takes the sleep_state lock, reads the
\* clock and, when the idle timeout has run out, calls sleep.
tick_lock(t) ==
    /\ pc[t] = "tick_lock"
    /\ sleep_lock = NoThread
    /\ LET idle_over == /\ sleep_state.last_activity # NoTime
                        /\ now > sleep_state.last_activity + IdleTimeout
           l == [mloc[t] EXCEPT !.now = now]
       IN  IF mloc[t].mode = "Dark"
           THEN IF idle_over
                THEN /\ sleep_lock' = t
                     /\ SetModeLocals(t, [mloc[t] EXCEPT !.ret = "tick_dark_slept"])
                     /\ Goto(t, "sleep_load")
                ELSE /\ sleep_lock' = NoThread
                     /\ SetModeLocals(t, NoModeLocals)
                     /\ Goto(t, "idle")
           ELSE /\ sleep_lock' = t
                /\ IF idle_over
                   THEN /\ SetModeLocals(t, [l EXCEPT !.ret = "tick_passive_slept"])
                        /\ Goto(t, "sleep_load")
                   ELSE /\ SetModeLocals(t, l)
                        /\ Goto(t, "tick_passive_wake")
    /\ UNCHANGED <<ivars, queue, mode, liveness, sleep_state, now, notified>>

\* Line 648: back from sleep, refused or not, the Dark tick clears
\* last_activity and lets go of the lock.
tick_dark_slept(t) ==
    /\ pc[t] = "tick_dark_slept"
    /\ sleep_state' = [sleep_state EXCEPT !.last_activity = NoTime]
    /\ sleep_lock' = NoThread
    /\ SetModeLocals(t, NoModeLocals)
    /\ Goto(t, "idle")
    /\ UNCHANGED <<ivars, queue, mode, liveness, now, notified>>

\* A Passive tick that forgets to start the wake timer when it has put the
\* client to sleep.
tick_passive_slept_unarmed(t) ==
    /\ pc[t] = "tick_passive_slept"
    /\ sleep_state' = [sleep_state EXCEPT !.last_activity = NoTime]
    /\ Goto(t, "tick_passive_wake")
    /\ UNCHANGED <<ivars, queue, mode, liveness, sleep_lock, now, notified, mloc>>

\* Lines 658-659: back from sleep, the Passive tick clears last_activity and
\* sets last_autosleep to the clock reading it took.
tick_passive_slept(t) ==
    /\ pc[t] = "tick_passive_slept"
    /\ sleep_state' = [last_activity |-> NoTime, last_autosleep |-> mloc[t].now]
    /\ Goto(t, "tick_passive_wake")
    /\ UNCHANGED <<ivars, queue, mode, liveness, sleep_lock, now, notified, mloc>>

\* Lines 662-664: when the wake period has run out the Passive tick calls
\* wake_up; otherwise it is done.
tick_passive_wake(t) ==
    /\ pc[t] = "tick_passive_wake"
    /\ IF /\ sleep_state.last_autosleep # NoTime
          /\ mloc[t].now > sleep_state.last_autosleep + WakeAfter
       THEN /\ SetModeLocals(t, [mloc[t] EXCEPT !.ret = "tick_passive_woken"])
            /\ Goto(t, "wake_up_load")
            /\ UNCHANGED sleep_lock
       ELSE /\ sleep_lock' = NoThread
            /\ SetModeLocals(t, NoModeLocals)
            /\ Goto(t, "idle")
    /\ UNCHANGED <<ivars, queue, mode, liveness, sleep_state, now, notified>>

\* Lines 665-666: back from wake_up, the idle timer restarts.
tick_passive_woken(t) ==
    /\ pc[t] = "tick_passive_woken"
    /\ sleep_state' = [last_activity |-> mloc[t].now, last_autosleep |-> NoTime]
    /\ sleep_lock' = NoThread
    /\ SetModeLocals(t, NoModeLocals)
    /\ Goto(t, "idle")
    /\ UNCHANGED <<ivars, queue, mode, liveness, now, notified>>

\* Client::keep_alive, lines 866-871: the mode is read under its lock; in
\* Dark and Passive wake_up is called, in Active and Off the call is over.
keep_alive_read(t) ==
    /\ pc[t] = "idle"
    /\ IF mode \in {"Dark", "Passive"}
       THEN /\ SetModeLocals(t, [NoModeLocals EXCEPT !.op = "keep_alive", !.mode = mode,
                                                     !.ret = "keep_alive_touch"])
            /\ Goto(t, "wake_up_load")
       ELSE /\ SetModeLocals(t, [NoModeLocals EXCEPT !.op = "keep_alive", !.mode = mode])
            /\ Goto(t, "keep_alive_returned")
    /\ UNCHANGED <<ivars, queue, mode, liveness, sleep_state, sleep_lock,
                   now, notified>>

\* Line 872: last_activity = Some(Instant::now()) under the sleep_state lock.
keep_alive_touch(t) ==
    /\ pc[t] = "keep_alive_touch"
    /\ sleep_lock = NoThread
    /\ sleep_state' = [sleep_state EXCEPT !.last_activity = now]
    /\ Goto(t, "keep_alive_returned")
    /\ UNCHANGED <<ivars, queue, mode, liveness, sleep_lock, now, notified, mloc>>

\* Client::set_mode, lines 884-898: the mode is stored under its lock; then
\* Active calls wake_up and Off calls sleep.
set_mode_store(t, new_mode) ==
    /\ pc[t] = "idle"
    /\ mode' = new_mode
    /\ SetModeLocals(t, [NoModeLocals EXCEPT !.op = "set_mode", !.mode = new_mode,
                                             !.ret = "set_mode_returned"])
    /\ Goto(t, CASE new_mode = "Active" -> "wake_up_load"
                 [] new_mode = "Off" -> "sleep_load"
                 [] OTHER -> "set_mode_touch")
    /\ UNCHANGED <<ivars, queue, liveness, sleep_state, sleep_lock, now, notified>>

\* Line 899: Dark and Passive restart the idle timer.
set_mode_touch(t) ==
    /\ pc[t] = "set_mode_touch"
    /\ sleep_lock = NoThread
    /\ sleep_state' = [sleep_state EXCEPT !.last_activity = now]
    /\ Goto(t, "set_mode_returned")
    /\ UNCHANGED <<ivars, queue, mode, liveness, sleep_lock, now, notified, mloc>>

\* keep_alive or set_mode returns to its caller.
mode_return(t) ==
    /\ pc[t] \in {"keep_alive_returned", "set_mode_returned"}
    /\ SetModeLocals(t, NoModeLocals)
    /\ Goto(t, "idle")
    /\ UNCHANGED <<ivars, queue, mode, liveness, sleep_state, sleep_lock,
                   now, notified>>

(***************************************************************************)
(* queue_transactions and import_queued_transactions                       *)
(***************************************************************************)
SetTxLocals(t, l) == tloc' = [tloc EXCEPT ![t] = l]

\* What the transaction counter leaves alone.
nontx == <<db, chain, state_cache, last_hashes, queue, report, import_lock,
           restores, loc, mvars, avars, locks>>

\* The transactions of the messages a channel holds.
RECURSIVE TxIn(_)
TxIn(ch) == IF ch = << >> THEN 0 ELSE Head(ch) + TxIn(Tail(ch))

\* queue_transactions, lines 1199-1203: the counter is loaded; above the
\* limit the transactions are dropped and the call returns.
queue_transactions_load(t, len) ==
    /\ pc[t] = "idle"
    /\ IF queue_is_full(queue_transactions)
       THEN UNCHANGED <<pc, tloc>>
       ELSE Goto(t, "qt_send") /\ SetTxLocals(t, [len |-> len])
    /\ UNCHANGED <<nontx, queue_transactions, io_channel>>

\* Line 1204, Ok: the message is in the channel.
queue_transactions_send(t) ==
    /\ pc[t] = "qt_send"
    /\ Len(io_channel) < MaxPending
    /\ io_channel' = Append(io_channel, tloc[t].len)
    /\ Goto(t, "qt_add")
    /\ UNCHANGED <<nontx, queue_transactions, tloc>>

\* Lines 1204 and 1208-1210, Err: the channel took nothing, the call returns.
queue_transactions_send_failed(t) ==
    /\ pc[t] = "qt_send"
    /\ Goto(t, "idle")
    /\ SetTxLocals(t, NoTxLocals)
    /\ UNCHANGED <<nontx, queue_transactions, io_channel>>

\* Lines 1205-1207: fetch_add(len).
queue_transactions_add(t) ==
    /\ pc[t] = "qt_add"
    /\ queue_transactions' = queue_transactions + tloc[t].len
    /\ Goto(t, "idle")
    /\ SetTxLocals(t, NoTxLocals)
    /\ UNCHANGED <<nontx, io_channel>>

\* import_queued_transactions, lines 555-562, called by the IO handler with
\* the transactions of the message it took from the channel:
\* fetch_sub(transactions.len()).
import_queued_transactions ==
    /\ io_channel # << >>
    /\ queue_transactions' = queue_transactions - Head(io_channel)
    /\ io_channel' = Tail(io_channel)
    /\ UNCHANGED <<nontx, pc, tloc>>

(***************************************************************************)
(* The account provider: unlock_account, password, sign and decrypt        *)
(***************************************************************************)
SetAccountLocals(t, l) == aloc' = [aloc EXCEPT ![t] = l]

\* What the account provider leaves alone.
nonacc == <<db, chain, state_cache, last_hashes, queue, report, import_lock,
            restores, loc, mode, liveness, sleep_state, sleep_lock, notified,
            mloc, tvars, locks>>

\* The durations of the timed unlocks, in readings of the clock.
Durations == {0, 1}

UnlockKinds == {"Temp", "Perm", "Timed"}

\* SecretStore::sign and SecretStore::decrypt succeed with the password of
\* the account and with no other.
sstore_accepts(store, a, pw) == store[a] = pw

\* An unlock_account that overwrites whatever entry it finds.
unlock_account_entry_overwriting(u, a, pw, kind, end) ==
    [u EXCEPT ![a] = [unlock |-> kind, end |-> end, password |-> pw]]

\* unlock_account, lines 259-272, under the lock of the map: an account
\* unlocked permanently is left as it is, otherwise the entry is inserted.
unlock_account_entry(u, a, pw, kind, end) ==
    IF u[a].unlock = "Perm"
    THEN u
    ELSE [u EXCEPT ![a] = [unlock |-> kind, end |-> end, password |-> pw]]

\* A password() that leaves a temporary entry in the map.
password_keeps_temp(u, a, at) ==
    LET data == u[a]
    IN  IF data.unlock = "none"
        THEN [unlocked |-> u, ok |-> FALSE, password |-> "none"]
        ELSE IF data.unlock = "Timed" /\ at > data.end
             THEN [unlocked |-> [u EXCEPT ![a] = Locked], ok |-> FALSE,
                   password |-> "none"]
             ELSE [unlocked |-> u, ok |-> TRUE, password |-> data.password]

\* A password() that does not look at the deadline of a timed entry.
password_ignores_deadline(u, a, at) ==
    LET data == u[a]
    IN  IF data.unlock = "none"
        THEN [unlocked |-> u, ok |-> FALSE, password |-> "none"]
        ELSE IF data.unlock = "Temp"
             THEN [unlocked |-> [u EXCEPT ![a] = Locked], ok |-> TRUE,
                   password |-> data.password]
             ELSE [unlocked |-> u, ok |-> TRUE, password |-> data.password]

\* password, lines 275-288, under the lock of the map, at clock reading at:
\* no entry is NotUnlocked; a temporary entry is removed and gives its
\* password; a timed entry past its deadline is removed and is NotUnlocked;
\* every other entry gives its password.
password(u, a, at) ==
    LET data == u[a]
    IN  IF data.unlock = "none"
        THEN [unlocked |-> u, ok |-> FALSE, password |-> "none"]
        ELSE IF data.unlock = "Temp"
             THEN [unlocked |-> [u EXCEPT ![a] = Locked], ok |-> TRUE,
                   password |-> data.password]
             ELSE IF data.unlock = "Timed" /\ at > data.end
                  THEN [unlocked |-> [u EXCEPT ![a] = Locked], ok |-> FALSE,
                        password |-> "none"]
                  ELSE [unlocked |-> u, ok |-> TRUE, password |-> data.password]

\* An unlock_account that takes the password unverified.
unlock_account_verify_unchecked(t, a, pw, kind, d) ==
    /\ pc[t] = "idle"
    /\ SetAccountLocals(t, [op |-> "unlock", account |-> a, password |-> pw,
                            unlock |-> kind,
                            end |-> IF kind = "Timed" THEN now + d ELSE NoTime,
                            ret |-> "none"])
    /\ Goto(t, "ua_insert")
    /\ UNCHANGED <<nonacc, now, unlocked, sstore>>

\* unlock_account_permanently, unlock_account_temporarily and
\* unlock_account_timed, lines 290-303, and unlock_account, lines 253-257:
\* the deadline of a timed unlock is computed from the clock, and the
\* password is verified by signing a dummy message.
unlock_account_verify(t, a, pw, kind, d) ==
    /\ pc[t] = "idle"
    /\ LET l == [op |-> "unlock", account |-> a, password |-> pw, unlock |-> kind,
                 end |-> IF kind = "Timed" THEN now + d ELSE NoTime,
                 ret |-> "none"]
       IN  IF sstore_accepts(sstore, a, pw)
           THEN SetAccountLocals(t, l) /\ Goto(t, "ua_insert")
           ELSE SetAccountLocals(t, [l EXCEPT !.ret = "SStore"]) /\ Goto(t, "acc_done")
    /\ UNCHANGED <<nonacc, now, unlocked, sstore>>

\* unlock_account, lines 259-272.
unlock_account_insert(t) ==
    /\ pc[t] = "ua_insert"
    /\ LET l == aloc[t]
       IN  /\ unlocked' = unlock_account_entry(unlocked, l.account, l.password,
                                               l.unlock, l.end)
           /\ SetAccountLocals(t, [l EXCEPT !.ret = "Ok"])
    /\ Goto(t, "acc_done")
    /\ UNCHANGED <<nonacc, now, sstore>>

\* sign and decrypt without a password, lines 312-313 and 318-319: the
\* password of the unlocked account is asked for.  The locals keep the kind
\* and the deadline of the entry that was found.
sign_password(t, a, op) ==
    /\ pc[t] = "idle"
    /\ LET r == password(unlocked, a, now)
           l == [NoAccountLocals EXCEPT !.op = op, !.account = a,
                                        !.unlock = unlocked[a].unlock,
                                        !.end = unlocked[a].end]
       IN  /\ unlocked' = r.unlocked
           /\ IF r.ok
              THEN SetAccountLocals(t, [l EXCEPT !.password = r.password])
                   /\ Goto(t, "sg_sstore")
              ELSE SetAccountLocals(t, [l EXCEPT !.ret = "NotUnlocked"])
                   /\ Goto(t, "acc_done")
    /\ UNCHANGED <<nonacc, now, sstore>>

\* sign and decrypt with a password, lines 312-313 and 318-319: the map is
\* not looked at.
sign_given(t, a, op, pw) ==
    /\ pc[t] = "idle"
    /\ SetAccountLocals(t, [NoAccountLocals EXCEPT !.op = op, !.account = a,
                                                   !.password = pw,
                                                   !.unlock = "given"])
    /\ Goto(t, "sg_sstore")
    /\ UNCHANGED <<nonacc, now, unlocked, sstore>>

\* Lines 314 and 320: the secret store signs or decrypts with the password.
sign_sstore(t) ==
    /\ pc[t] = "sg_sstore"
    /\ LET l == aloc[t]
       IN  SetAccountLocals(t, [l EXCEPT !.ret =
               IF sstore_accepts(sstore, l.account, l.password) THEN "Ok" ELSE "SStore"])
    /\ Goto(t, "acc_done")
    /\ UNCHANGED <<nonacc, now, unlocked, sstore>>

\* is_unlocked, lines 305-309: the map has an entry for the account.
is_unlocked(t, a) ==
    /\ pc[t] = "idle"
    /\ SetAccountLocals(t, [NoAccountLocals EXCEPT
           !.op = "is_unlocked", !.account = a,
           !.ret = IF unlocked[a].unlock # "none" THEN "true" ELSE "false"])
    /\ Goto(t, "acc_done")
    /\ UNCHANGED <<nonacc, now, unlocked, sstore>>

\* change_password, lines 248-250: the secret store takes the new password
\* if the old one is right.
change_password(t, a, pw, new_password) ==
    /\ pc[t] = "idle"
    /\ sstore_accepts(sstore, a, pw)
    /\ new_password # pw
    /\ sstore' = [sstore EXCEPT ![a] = new_password]
    /\ UNCHANGED <<nonacc, now, pc, unlocked, aloc>>

\* The caller has its result.
account_return(t) ==
    /\ pc[t] = "acc_done"
    /\ SetAccountLocals(t, NoAccountLocals)
    /\ Goto(t, "idle")
    /\ UNCHANGED <<nonacc, now, unlocked, sstore>>

(***************************************************************************)
(* Specification                                                           *)
(***************************************************************************)
\* The import engine: the operations that feed and empty the block queue and
\* commit blocks.
ImportStep(t) ==
    \/ Return(t)
    \/ import_verified_blocks_empty(t)
    \/ import_verified_blocks_drain(t)
    \/ import_verified_blocks_skip(t)
    \/ import_verified_blocks_check_ok(t)
    \/ import_verified_blocks_check_failed(t)
    \/ import_verified_blocks_accrue(t)
    \/ import_verified_blocks_marks(t)
    \/ import_verified_blocks_notify(t)
    \/ commit_block_sync_cache(t)
    \/ commit_block_write_buffered(t)
    \/ commit_block_chain_commit(t)
    \/ commit_block_update_last_hashes(t)
    \/ flush(t)
    \/ import_sealed_block_sync(t)
    \/ import_sealed_block_notify(t)
    \/ import_old_block_write(t)
    \/ import_old_block_commit(t)
    \/ import_old_block_flush(t)

\* The network hands a block to import_block after its sender has imported
\* it: never while the block's sealed or ancient import is still under way
\* here.
Offered(b) ==
    \A u \in Threads :
        loc[u].caller \in {"import_sealed_block", "import_old_block"} => loc[u].blk # b

Next ==
    \E t \in Threads :
        \/ ImportStep(t)
        \/ \E b \in PeerBlocks : Offered(b) /\ import_block(t, b)
        \/ \E b \in TipBlocks : import_sealed_block_lock(t, b)
        \/ \E b \in AncientBlocks : import_old_block_lock(t, b)

Spec == Init /\ [][Next]_vars

\* The import engine with a database restore and readers of the best state,
\* over the blocks at the tip and a bad block with its child: peers send the
\* next block of the main branch and the bad ones, the miner seals the blocks
\* at the tip.
NextRestore ==
    \E t \in Threads :
        \/ ImportStep(t)
        \/ \E b \in {TrunkAt(InitHeight + 1), BadBlock, BadChild} :
               Offered(b) /\ import_block(t, b)
        \/ \E b \in TipBlocks : import_sealed_block_lock(t, b)
        \/ \E b \in AncientBlocks : import_old_block_lock(t, b)
        \/ restore_db_lock(t)
        \/ restore_db_swap(t)
        \/ state_header(t)
        \/ state_from_existing(t)

SpecRestore == Init /\ [][NextRestore]_vars

\* The miner extends the main branch block by block while readers take the
\* state of the best block.
NextReader ==
    \E t \in Threads :
        \/ \E b \in Trunk : import_sealed_block_lock(t, b)
        \/ commit_block_sync_cache(t)
        \/ commit_block_write_buffered(t)
        \/ commit_block_chain_commit(t)
        \/ commit_block_update_last_hashes(t)
        \/ import_sealed_block_sync(t)
        \/ import_sealed_block_notify(t)
        \/ flush(t)
        \/ state_header(t)
        \/ state_from_existing(t)
        \/ Return(t)

SpecReader == Init /\ [][NextReader]_vars

\* Linear extension: over a chain that holds the genesis block only, the
\* peers offer the first blocks of the main branch, each the child of the
\* one before, and import_verified_blocks imports them.
LinearBlocks == {TrunkAt(n) : n \in 1..MaxQueue}

NextLinear ==
    \E t \in Threads :
        \/ \E b \in LinearBlocks : import_block(t, b)
        \/ Return(t)
        \/ import_verified_blocks_drain(t)
        \/ import_verified_blocks_check_ok(t)
        \/ import_verified_blocks_accrue(t)
        \/ import_verified_blocks_marks(t)
        \/ import_verified_blocks_notify(t)
        \/ commit_block_sync_cache(t)
        \/ commit_block_write_buffered(t)
        \/ commit_block_chain_commit(t)
        \/ commit_block_update_last_hashes(t)
        \/ flush(t)

SpecLinear == InitGenesis /\ [][NextLinear]_vars

\* The sleep machine: ticks, keep_alive and set_mode calls of two threads
\* while peers fill the block queue and the queue is cleared, under every
\* configured mode.
InitMode ==
    /\ db = InitialDb
    /\ chain = [best_block |-> InitialDb.best, pending_best |-> NoHash]
    /\ state_cache = [canon |-> NoHash]
    /\ last_hashes = EmptyWindow
    /\ queue = EmptyQueue
    /\ report = ZeroReport
    /\ import_lock = NoThread
    /\ restores = 0
    /\ pc = [t \in Threads |-> "idle"]
    /\ loc = [t \in Threads |-> NoLocals]
    /\ \E m \in Modes : ModeInit(m)
    /\ TxInit
    /\ AccountInit
    /\ locks = NoLocks

\* The last reading of the clock while set_mode calls are made.
MaxSetModeTime == 2

\* The blocks peers send meanwhile: the next blocks of the main branch.
QueuedBlocks == {TrunkAt(InitHeight + n) : n \in 1..MaxQueue}

ModeStep(t) ==
    \/ tick_read_mode(t)
    \/ tick_lock(t)
    \/ tick_dark_slept(t)
    \/ tick_passive_slept(t)
    \/ tick_passive_wake(t)
    \/ tick_passive_woken(t)
    \/ keep_alive_read(t)
    \/ keep_alive_touch(t)
    \/ \E m \in Modes : set_mode_store(t, m)
    \/ set_mode_touch(t)
    \/ mode_return(t)
    \/ sleep_load(t)
    \/ sleep_store(t)
    \/ sleep_notify(t)
    \/ wake_up_load(t)
    \/ wake_up_store(t)
    \/ wake_up_notify(t)

NextMode ==
    \/ now < MaxSetModeTime /\ time_passes
    \/ \E t \in Threads :
          \/ ModeStep(t)
          \/ \E b \in QueuedBlocks : import_block(t, b)
          \/ Return(t)
          \/ clear_queue(t)

SpecMode == InitMode /\ [][NextMode]_vars

\* The timers: the client runs in one mode, Dark or Passive, that no
\* set_mode call changes; ticks and keep_alive calls of two threads run
\* while peers fill the block queue and the queue is cleared.
InitTimers ==
    /\ db = InitialDb
    /\ chain = [best_block |-> InitialDb.best, pending_best |-> NoHash]
    /\ state_cache = [canon |-> NoHash]
    /\ last_hashes = EmptyWindow
    /\ queue = EmptyQueue
    /\ report = ZeroReport
    /\ import_lock = NoThread
    /\ restores = 0
    /\ pc = [t \in Threads |-> "idle"]
    /\ loc = [t \in Threads |-> NoLocals]
    /\ \E m \in {"Dark", "Passive"} : ModeInit(m)
    /\ TxInit
    /\ AccountInit
    /\ locks = NoLocks

NextTimers ==
    \/ time_passes
    \/ \E t \in Threads :
          \/ tick_read_mode(t)
          \/ tick_lock(t)
          \/ tick_dark_slept(t)
          \/ tick_passive_slept(t)
          \/ tick_passive_wake(t)
          \/ tick_passive_woken(t)
          \/ keep_alive_read(t)
          \/ keep_alive_touch(t)
          \/ mode_return(t)
          \/ sleep_load(t)
          \/ sleep_store(t)
          \/ sleep_notify(t)
          \/ wake_up_load(t)
          \/ wake_up_store(t)
          \/ wake_up_notify(t)
          \/ \E b \in QueuedBlocks : import_block(t, b)
          \/ Return(t)
          \/ clear_queue(t)

SpecTimers == InitTimers /\ [][NextTimers]_vars

\* The transaction counter: queue_transactions calls of two threads while the
\* IO handler imports the queued transactions.
NextTx ==
    \/ \E t \in Threads :
          \/ \E len \in TxBatchLens : queue_transactions_load(t, len)
          \/ queue_transactions_send(t)
          \/ queue_transactions_send_failed(t)
          \/ queue_transactions_add(t)
    \/ import_queued_transactions

SpecTx == Init /\ [][NextTx]_vars

\* Calls at BlockID::Latest of two threads while sealed blocks are committed.
NextCall ==
    \E t \in Threads :
        \/ \E b \in Trunk : import_sealed_block_lock(t, b)
        \/ commit_block_sync_cache(t)
        \/ commit_block_write_buffered(t)
        \/ commit_block_chain_commit(t)
        \/ commit_block_update_last_hashes(t)
        \/ import_sealed_block_sync(t)
        \/ import_sealed_block_notify(t)
        \/ flush(t)
        \/ call_header(t)
        \/ call_state_header(t)
        \/ call_state(t)
        \/ call_transact(t)
        \/ Return(t)

SpecCall == Init /\ [][NextCall]_vars

\* state_at calls of two threads while sealed blocks, the competitor of the
\* initial tip among them, are committed.
NextStateAt ==
    \E t \in Threads :
        \/ \E b \in Trunk \cup {TipSide} : import_sealed_block_lock(t, b)
        \/ commit_block_sync_cache(t)
        \/ commit_block_write_buffered(t)
        \/ commit_block_chain_commit(t)
        \/ commit_block_update_last_hashes(t)
        \/ import_sealed_block_sync(t)
        \/ import_sealed_block_notify(t)
        \/ flush(t)
        \/ \E n \in Numbers : state_at_header(t, n)
        \/ state_at_open(t)
        \/ state_at_return(t)

SpecStateAt == Init /\ [][NextStateAt]_vars

\* Snapshots at the latest block taken by two threads while sealed blocks
\* extend a chain that starts at the genesis block.
SnapshotBlocks == {TrunkAt(n) : n \in 1..(history + 1)}

NextSnapshot ==
    \E t \in Threads :
        \/ \E b \in SnapshotBlocks : import_sealed_block_lock(t, b)
        \/ commit_block_sync_cache(t)
        \/ commit_block_write_buffered(t)
        \/ commit_block_chain_commit(t)
        \/ commit_block_update_last_hashes(t)
        \/ import_sealed_block_sync(t)
        \/ import_sealed_block_notify(t)
        \/ flush(t)
        \/ take_snapshot_start(t)
        \/ take_snapshot_hash(t)
        \/ take_snapshot_return(t)

SpecSnapshot == InitGenesis /\ [][NextSnapshot]_vars

\* calculate_enacted_retracted applied to every sequence of at most MaxRoutes
\* routes over RouteHashes.
InitRoutes ==
    /\ db = InitialDb
    /\ chain = [best_block |-> InitialDb.best, pending_best |-> NoHash]
    /\ state_cache = [canon |-> NoHash]
    /\ last_hashes = EmptyWindow
    /\ queue = EmptyQueue
    /\ report = ZeroReport
    /\ import_lock = NoThread
    /\ restores = 0
    /\ pc = [t \in Threads |-> IF t = "t1" THEN "cer_call" ELSE "idle"]
    /\ \E rs \in RouteSeqs :
           loc = [t \in Threads |-> IF t = "t1"
                                    THEN [NoLocals EXCEPT !.import_results = rs]
                                    ELSE NoLocals]
    /\ ModeInit("Active")
    /\ TxInit
    /\ AccountInit
    /\ locks = NoLocks

NextRoutes == \E t \in Threads : calculate_enacted_retracted_apply(t)

SpecRoutes == InitRoutes /\ [][NextRoutes]_vars

\* Old-block backfill: the client is constructed over a database restored
\* from a snapshot, which holds the genesis block and the last SnapshotDepth
\* blocks of the main branch; the blocks between are imported by
\* import_old_block, each the child of a known block, while the miner seals
\* the next block and readers ask for the last hashes.
SnapshotDepth == 3
RestoredFirst == InitHeight - SnapshotDepth + 1
RestoredDb ==
    [InitialDb EXCEPT
        !.details = {b \in @ : b = Genesis \/ Number(b) >= RestoredFirst},
        !.hashes = [n \in Numbers |-> IF n = 0 \/ n >= RestoredFirst THEN @[n] ELSE NoHash]]
AncientTrunk == {b \in Trunk : Number(b) >= 1 /\ Number(b) < RestoredFirst}

InitRestored ==
    /\ db = RestoredDb
    /\ chain = [best_block |-> RestoredDb.best, pending_best |-> NoHash]
    /\ state_cache = [canon |-> NoHash]
    /\ last_hashes = EmptyWindow
    /\ queue = EmptyQueue
    /\ report = ZeroReport
    /\ import_lock = NoThread
    /\ restores = 0
    /\ pc = [t \in Threads |-> "idle"]
    /\ loc = [t \in Threads |-> NoLocals]
    /\ ModeInit("Active")
    /\ TxInit
    /\ AccountInit
    /\ locks = NoLocks

NextBackfill ==
    \E t \in Threads :
        \/ \E b \in AncientTrunk : import_old_block_lock(t, b)
        \/ import_old_block_write(t)
        \/ import_old_block_commit(t)
        \/ import_old_block_flush(t)
        \/ import_sealed_block_lock(t, TrunkAt(InitHeight + 1))
        \/ commit_block_sync_cache(t)
        \/ commit_block_write_buffered(t)
        \/ commit_block_chain_commit(t)
        \/ commit_block_update_last_hashes(t)
        \/ import_sealed_block_sync(t)
        \/ import_sealed_block_notify(t)
        \/ flush(t)
        \/ last_hashes_cached(t)
        \/ last_hashes_walk(t)
        \/ last_hashes_store(t)
        \/ last_hashes_return(t)

SpecBackfill == InitRestored /\ [][NextBackfill]_vars

\* The locks: restore_db against prepare_open_block, transaction_receipt and
\* the check_and_close_block of an import.
NextLocks ==
    \E t \in Threads :
        \/ restore_db_take_import(t)
        \/ restore_db_take_state_db(t)
        \/ restore_db_take_chain(t)
        \/ restore_db_take_tracedb(t)
        \/ restore_db_take_db(t)
        \/ restore_db_rebuild(t)
        \/ prepare_open_block_chain(t)
        \/ prepare_open_block_state_db(t)
        \/ prepare_open_block_build(t)
        \/ prepare_open_block_return(t)
        \/ transaction_receipt_chain(t)
        \/ transaction_receipt_address(t)
        \/ check_and_close_block_import(t)
        \/ check_and_close_block_chain(t)
        \/ check_and_close_block_state_db(t)

SpecLocks == Init /\ [][NextLocks]_vars

\* A short heavy branch against the long main branch: peers send the heavy
\* block and the blocks of the main branch above the initial tip.
HeavyBlocks == {HeavySide} \cup {b \in Trunk : b > TrunkAt(InitHeight)}

NextHeavy ==
    \E t \in Threads :
        \/ \E b \in HeavyBlocks : import_block(t, b)
        \/ Return(t)
        \/ import_verified_blocks_empty(t)
        \/ import_verified_blocks_drain(t)
        \/ import_verified_blocks_check_ok(t)
        \/ import_verified_blocks_check_failed(t)
        \/ import_verified_blocks_accrue(t)
        \/ import_verified_blocks_marks(t)
        \/ import_verified_blocks_notify(t)
        \/ commit_block_sync_cache(t)
        \/ commit_block_write_buffered(t)
        \/ commit_block_chain_commit(t)
        \/ commit_block_update_last_hashes(t)
        \/ flush(t)

SpecHeavy == Init /\ [][NextHeavy]_vars

\* The account provider: unlocks, signatures, decryptions and password
\* changes of two threads while the clock moves on.
NextAccounts ==
    \/ time_passes
    \/ \E t \in Threads, a \in Accounts :
          \/ \E pw \in Passwords, kind \in UnlockKinds, d \in Durations :
                 unlock_account_verify(t, a, pw, kind, d)
          \/ unlock_account_insert(t)
          \/ \E op \in {"sign", "decrypt"} : sign_password(t, a, op)
          \/ \E pw \in Passwords : sign_given(t, a, "sign", pw)
          \/ sign_sstore(t)
          \/ \E pw, new_password \in Passwords : change_password(t, a, pw, new_password)
          \/ is_unlocked(t, a)
          \/ account_return(t)

SpecAccounts == Init /\ [][NextAccounts]_vars

(***************************************************************************)
(* Properties                                                              *)
(***************************************************************************)
\* The positions of a thread between taking the import lock and releasing it.
LockedPositions ==
    {"ivb_loop", "cb_sync", "cb_write", "cb_commit", "cb_hashes", "ivb_accrue",
     "isb_sync", "iob_write", "iob_commit", "iob_flush", "rd_swap"}

InLockedSection(t) == pc[t] \in LockedPositions

\* C1: the import lock is held by at most one of import_verified_blocks (from
\* drain to mark_as_good), import_old_block, import_sealed_block and
\* restore_db at a time: two threads are never both inside such a section,
\* and the thread inside is the holder of the lock.
ImportLockExclusive ==
    /\ \A t, u \in Threads : InLockedSection(t) /\ InLockedSection(u) => t = u
    /\ \A t \in Threads : InLockedSection(t) <=> import_lock = t

\* C1 happens: a restore holds the lock while another thread, with blocks
\* ready in the queue, has to wait for it.
ImportLockContended ==
    \E t, u \in Threads :
        /\ pc[t] = "rd_swap"
        /\ pc[u] = "idle"
        /\ queue.ready # << >>

\* The writes of block b to the state, chain and trace columns.
StateWritten(b) == b \in db.roots /\ <<Number(b), b>> \in db.journal
NoneWritten(b) ==
    /\ b \notin db.roots
    /\ <<Number(b), b>> \notin db.journal
    /\ b \notin db.details
    /\ b \notin db.traces
AllWritten(b) == StateWritten(b) /\ b \in db.details /\ b \in db.traces

\* C2: commit_block writes the state, chain and trace columns of a block in
\* one batch and one write_buffered call: before the call none of the block's
\* writes is in the store, after it all of them are, and at no time does the
\* store hold the state or the traces of a block without its chain entry.
CommitIsOneBatch ==
    /\ \A t \in Threads :
          /\ pc[t] \in {"cb_sync", "cb_write"} =>
                NoneWritten(loc[t].blk) /\ loc[t].writes = 0
          /\ pc[t] \in {"cb_commit", "cb_hashes", "ivb_accrue", "isb_sync"} =>
                AllWritten(loc[t].blk) /\ loc[t].writes = 1
    /\ \A b \in Blocks \ {Genesis} :
          /\ b \in db.traces => b \in db.details
          /\ (b \in db.roots \/ <<Number(b), b>> \in db.journal) =>
                b \in db.details /\ b \in db.traces

\* C2 happens: a batch with the journal entry, the prune step, the chain
\* insert and the traces has just been written.
FullBatchWritten ==
    \E t \in Threads :
        /\ pc[t] = "cb_commit"
        /\ {loc[t].batch[i].op : i \in 1..Len(loc[t].batch)} =
               {"journal", "canon", "chain", "trace"}

\* C3: a block's batch is written to the KV store before its chain commit,
\* and the chain commit of every imported block precedes the notifications
\* that name it.
CommitBeforeNotify ==
    \A t \in Threads :
        /\ loc[t].published \subseteq loc[t].buffered
        /\ pc[t] \in {"cb_hashes", "ivb_accrue", "isb_sync"} =>
              loc[t].blk \in loc[t].published
        /\ pc[t] \in {"ivb_notify", "isb_notify"} =>
              /\ Range(loc[t].imported_blocks) \subseteq loc[t].published
              /\ loc[t].blk # NoHash => loc[t].blk \in loc[t].published
        /\ loc[t].notification.sent =>
              /\ Range(loc[t].notification.imported) \subseteq loc[t].published
              /\ Range(loc[t].notification.imported) \subseteq db.details

\* C3 happens: a notification naming imported blocks has gone out.
NotificationSent ==
    \E t \in Threads :
        /\ pc[t] = "flush"
        /\ loc[t].notification.sent
        /\ Len(loc[t].notification.imported) >= 2

\* C4: the enacted and the retracted hashes handed to the miner and the
\* subscribers are disjoint.
EnactedRetractedDisjoint ==
    \A t \in Threads :
        loc[t].notification.sent =>
            loc[t].notification.enacted \cap loc[t].notification.retracted = {}

\* C4 happens: a block imported (and enacted) by a call was retracted by a
\* later block of the same call, and the notification went out.
EnactedThenRetracted ==
    \E t \in Threads :
        /\ loc[t].notification.sent
        /\ \E h \in Range(loc[t].notification.imported) :
              h \in loc[t].notification.retracted

QuarantineHolds ==
    \A t \in Threads :
        loc[t].caller = "import_verified_blocks" =>
            /\ loc[t].failed \subseteq loc[t].invalid_blocks
            /\ \A i \in 1..(loc[t].idx - 1) :
                  (\E x \in loc[t].failed : Descends(loc[t].blocks[i], x)) =>
                      loc[t].blocks[i] \in loc[t].invalid_blocks
            /\ \A x \in loc[t].invalid_blocks :
                  /\ x \notin Range(loc[t].imported_blocks)
                  /\ x \notin loc[t].buffered \cup loc[t].published
                  /\ x # loc[t].blk
                  /\ chain.best_block # x
            /\ pc[t] \in {"ivb_notify", "flush"} =>
                  loc[t].invalid_blocks \subseteq queue.bad

\* The steps that refuse a block leave the store, the chain and the report
\* as they are.
RefusalChangesNothing ==
    \A t \in Threads :
        (import_verified_blocks_check_failed(t) \/ import_verified_blocks_skip(t)) =>
            UNCHANGED <<db, chain, state_cache, report>>

\* C5: in a batch of import_verified_blocks, a block that fails
\* check_and_close_block and every later block of the batch that descends
\* from it are in invalid_blocks, never reach commit_block and are not
\* imported, leave the best block and the store unchanged, and are bad in
\* the queue once mark_as_bad has run.
BadDescendantsQuarantined == []QuarantineHolds /\ [][RefusalChangesNothing]_vars

\* C5 happens: a batch of a failing block, its child and its grandchild has
\* been processed.
BadFamilyProcessed ==
    \E t \in Threads :
        /\ pc[t] = "ivb_loop"
        /\ loc[t].blocks = <<BadBlock, BadChild, BadGrandChild>>
        /\ loc[t].idx > Len(loc[t].blocks)
        /\ loc[t].failed = {BadBlock}

RECURSIVE SumOver(_, _)
SumOver(F(_), s) == IF s = << >> THEN 0 ELSE F(Head(s)) + SumOver(F, Tail(s))

\* The blocks of the running import_verified_blocks call that are accrued:
\* the last of imported_blocks is not while its commit is under way.
AccruedBlocks(t) ==
    IF pc[t] = "ivb_loop" THEN loc[t].imported_blocks
    ELSE SubSeq(loc[t].imported_blocks, 1, Len(loc[t].imported_blocks) - 1)

ReportMatches ==
    \A t \in Threads :
        /\ (InLockedSection(t) /\ loc[t].caller = "import_verified_blocks") =>
              /\ report.blocks_imported =
                     loc[t].report0.blocks_imported + Len(AccruedBlocks(t))
              /\ report.transactions_applied =
                     loc[t].report0.transactions_applied + SumOver(TxCount, AccruedBlocks(t))
              /\ report.gas_processed =
                     loc[t].report0.gas_processed + SumOver(GasUsed, AccruedBlocks(t))
              /\ pc[t] = "ivb_loop" =>
                     Range(loc[t].imported_blocks) = loc[t].published
        /\ (pc[t] \in {"ivb_notify", "flush"} /\ loc[t].caller = "import_verified_blocks") =>
              /\ loc[t].imported = Cardinality(loc[t].published)
              /\ loc[t].imported = Len(loc[t].imported_blocks)

ReportGrows ==
    /\ report'.blocks_imported >= report.blocks_imported
    /\ report'.transactions_applied >= report.transactions_applied
    /\ report'.gas_processed >= report.gas_processed

\* C6: during a call of import_verified_blocks the report grows by exactly
\* one block, its transactions and its gas per committed block, the value
\* returned is the number of blocks the call committed, and the counters
\* never decrease.
ReportIsExact == []ReportMatches /\ [][ReportGrows]_vars

\* C6 happens: a call has committed two blocks and refused one.
TwoBlocksAccrued ==
    \E t \in Threads :
        /\ pc[t] = "ivb_notify"
        /\ loc[t].imported = 2
        /\ loc[t].invalid_blocks # {}
        /\ report.blocks_imported >= 2

\* C7 as the specification states it: the state DB contains the state root
\* of every block of the chain, however old.
EveryCommittedBlockHasState ==
    \A b \in db.details : b \in db.roots

\* C7: the state DB contains the state root of every block committed by
\* commit_block for as long as no block numbered history or more above it
\* has been committed; blocks added by import_old_block have no state.
RecentCommittedBlocksHaveState ==
    \A b \in db.traces :
        db.latest_era < Number(b) + history => b \in db.roots

\* C7 happens: a block committed by commit_block has lost its state to the
\* prune step of a later commit, while the blocks within the history have
\* theirs.
CommittedBlockPruned ==
    /\ DeepSide \in db.traces
    /\ DeepSide \notin db.roots
    /\ db.latest_era = Number(DeepSide) + history
    /\ \E b \in db.traces : db.latest_era < Number(b) + history

\* C8 as the specification states it: Client::state() never panics on the
\* state root of the best block it has read.
StateNeverPanics ==
    \A t \in Threads : ~(loc[t].caller = "state" /\ loc[t].ret = "panic")

\* The state root of the published best block is in the state DB.
BestBlockHasState == chain.best_block \in db.roots

ImportBlockRejects(t, b) ==
    /\ is_known(b) =>
          /\ loc'[t].ret = "AlreadyInChain"
          /\ UNCHANGED <<db, chain, state_cache, last_hashes, queue, report, import_lock>>
    /\ (~is_known(b) /\ block_status(Parent(b)) = "Unknown") =>
          /\ loc'[t].ret = "UnknownParent"
          /\ UNCHANGED <<db, chain, state_cache, last_hashes, queue, report, import_lock>>

\* C10: import_block of a block the chain knows returns AlreadyInChain, and
\* of a block whose parent is neither in the chain nor in the queue returns
\* UnknownParent; in both cases the queue, the chain and the store are left
\* as they were.
ImportBlockRejectsUnchanged ==
    [][\A t \in Threads :
           (pc[t] = "idle" /\ pc'[t] = "done") =>
               \A b \in Blocks :
                   (is_known(b) \/ block_status(Parent(b)) = "Unknown") =>
                       (import_block(t, b) => ImportBlockRejects(t, b))]_vars

\* C10 happens: one call was refused with AlreadyInChain and another with
\* UnknownParent.
BothRejectionsSeen ==
    \E t, u \in Threads :
        /\ pc[t] = "done" /\ loc[t].ret = "AlreadyInChain"
        /\ pc[u] = "done" /\ loc[u].ret = "UnknownParent"
\* C11: linear extension.  Over a chain that held the genesis block only,
\* every batch of import_verified_blocks whose blocks are valid and each
\* extend the tip leaves its last block the best block, enacts exactly the
\* blocks of the batch and retracts none, and the report counts one block
\* per height: once A, B and C (heights 1, 2, 3) are in, the best block is C
\* and blocks_imported is 3.
LinearExtension ==
    /\ \A t \in Threads :
          pc[t] = "ivb_notify" =>
              LET l == loc[t]
                  er == calculate_enacted_retracted(l.import_results)
              IN  /\ l.imported_blocks # << >>
                  /\ l.invalid_blocks = {}
                  /\ er.enacted = Range(l.imported_blocks)
                  /\ er.retracted = {}
    /\ \A t \in Threads :
          (pc[t] = "ivb_loop" /\ loc[t].imported_blocks # << >>) =>
              /\ chain.best_block =
                     loc[t].imported_blocks[Len(loc[t].imported_blocks)]
              /\ report.blocks_imported = Number(chain.best_block)
    /\ import_lock = NoThread =>
              report.blocks_imported = Number(chain.best_block)
    /\ \A t \in Threads :
          loc[t].notification.sent =>
              /\ loc[t].notification.enacted = Range(loc[t].notification.imported)
              /\ loc[t].notification.retracted = {}
    /\ (import_lock = NoThread /\ report.blocks_imported = 3) =>
              chain.best_block = TrunkAt(3)
    /\ chain.best_block \in Trunk

\* C11 happens: A, B and C were imported in one batch, whose notification
\* reports the three enacted, and C is the best block.
ThreeBlocksExtended ==
    \E t \in Threads :
        /\ loc[t].notification.sent
        /\ loc[t].notification.imported = <<TrunkAt(1), TrunkAt(2), TrunkAt(3)>>
        /\ loc[t].notification.enacted = {TrunkAt(1), TrunkAt(2), TrunkAt(3)}
        /\ loc[t].notification.retracted = {}
        /\ chain.best_block = TrunkAt(3)
        /\ report.blocks_imported = 3

\* C20 as stated: after every batch of import_verified_blocks that drained
\* at least one block and after which mark_as_good reported the queue empty,
\* the miner is notified and new_blocks goes out with the batch's imported
\* and invalid blocks and no sealed block, a batch whose blocks were all
\* invalid included.
DrainedBatchNotified ==
    \A t \in Threads :
        (/\ pc[t] = "flush"
         /\ loc[t].caller = "import_verified_blocks"
         /\ loc[t].is_empty) =>
            /\ loc[t].notification.sent
            /\ loc[t].notification.imported = loc[t].imported_blocks
            /\ loc[t].notification.invalid = loc[t].invalid_blocks
            /\ loc[t].notification.sealed = << >>

BatchNotification(t) ==
    (pc[t] = "ivb_notify" /\ pc'[t] = "flush") =>
        LET l == loc[t]
            n == loc'[t].notification
            er == calculate_enacted_retracted(l.import_results)
        IN  /\ n.sent = (l.is_empty /\ l.imported_blocks # << >>)
            /\ n.sent =>
                  /\ n.imported = l.imported_blocks
                  /\ n.invalid = l.invalid_blocks
                  /\ n.enacted = er.enacted
                  /\ n.retracted = er.retracted
                  /\ n.sealed = << >>

\* C20, amended: after a batch of import_verified_blocks the miner is
\* notified and new_blocks goes out exactly when mark_as_good reported the
\* queue empty and the batch imported at least one block; the notification
\* carries the batch's imported and invalid blocks, the enacted and
\* retracted blocks computed from its import routes, and no sealed block.
\* A batch whose blocks were all invalid sends nothing.
DrainedImportingBatchNotified == [][\A t \in Threads : BatchNotification(t)]_vars

\* C20 happens: a batch that imported a block and refused another has
\* emptied the queue and its notification names both.
MixedBatchNotified ==
    \E t \in Threads :
        /\ pc[t] = "flush"
        /\ loc[t].caller = "import_verified_blocks"
        /\ loc[t].is_empty
        /\ loc[t].notification.sent
        /\ loc[t].notification.imported # << >>
        /\ loc[t].notification.invalid # {}

(***************************************************************************)
(* Properties of the sleep machine                                         *)
(***************************************************************************)
\* A step in which a start or a stop notification goes out.
StartFires == \E t \in Threads : pc[t] = "wake_up_notify" /\ pc'[t] # "wake_up_notify"
StopFires == \E t \in Threads : pc[t] = "sleep_notify" /\ pc'[t] # "sleep_notify"

\* No set_mode call is under way.
ModeSettled == \A t \in Threads : mloc[t].op # "set_mode"

\* C12: once set_mode(Off) has returned, and for as long as no later
\* set_mode call has been made, no start notification goes out, whatever
\* ticks and keep_alive calls run at the same time.
NoStartWhileOff ==
    [][(mode = "Off" /\ ModeSettled /\ ModeSettled') => ~StartFires]_vars

SleepChecksQueue(t) ==
    /\ (/\ pc[t] = "sleep_load"
        /\ pc'[t] # "sleep_load"
        /\ total_queue_size(queue) > MAX_QUEUE_SIZE_TO_SLEEP_ON) =>
           /\ pc'[t] = mloc[t].ret
           /\ liveness' = liveness
           /\ notified' = notified
    /\ (pc[t] # "sleep_store" /\ pc'[t] = "sleep_store") =>
           /\ pc[t] = "sleep_load"
           /\ total_queue_size(queue) <= MAX_QUEUE_SIZE_TO_SLEEP_ON
    /\ (pc[t] # "sleep_notify" /\ pc'[t] = "sleep_notify") => pc[t] = "sleep_store"

ModeIdle(t) == pc[t] \in {"idle", "done"}

\* C14: when set_mode(Off) returns with no other call on the sleep machine
\* under way, the client is asleep, whatever its mode and state were
\* before, and it stays asleep for as long as the mode is Off.
OffSleepsImmediately ==
    /\ \A t \in Threads :
          (/\ pc[t] = "set_mode_returned"
           /\ mloc[t].mode = "Off"
           /\ mode = "Off"
           /\ \A u \in Threads \ {t} : ModeIdle(u)) => ~liveness
    /\ (mode = "Off" /\ \A t \in Threads : ModeIdle(t)) => ~liveness

\* C15: while the mode is Active and no set_mode call is under way, the
\* liveness flag never becomes false and no stop notification goes out,
\* a tick that read the mode before set_mode(Active) included.
ActiveNeverSleeps ==
    [][(mode = "Active" /\ ModeSettled /\ ModeSettled') =>
           /\ ~(liveness /\ ~liveness')
           /\ ~StopFires]_vars

\* C16: Passive auto-wake.  With the mode Passive throughout, a client that
\* is asleep always has a timer running that ticks alone bring to its end
\* (the wake timer, or the idle timer whose end starts the wake timer); the
\* tick that finds now > last_autosleep + WakeAfter leaves the client
\* awake (its wake_up has stored the flag and delivered start, or found
\* the client awake) and restarts the idle timer at its clock reading in
\* place of the wake timer.
PassiveAutoWake ==
    /\ (mode = "Passive" /\ ~liveness /\ \A t \in Threads : ModeIdle(t)) =>
          \/ sleep_state.last_autosleep # NoTime
          \/ sleep_state.last_activity # NoTime
    /\ \A t \in Threads :
          pc[t] = "tick_passive_woken" =>
              /\ liveness
              /\ sleep_state.last_autosleep # NoTime
              /\ mloc[t].now > sleep_state.last_autosleep + WakeAfter
    /\ \A t \in Threads :
          (mode = "Passive" /\ sleep_lock = t /\ pc[t] = "wake_up_load") =>
              /\ sleep_state.last_autosleep # NoTime
              /\ mloc[t].now > sleep_state.last_autosleep + WakeAfter
    /\ (mode = "Passive" /\ liveness /\ \A t \in Threads : ModeIdle(t)) =>
          \/ sleep_state.last_activity # NoTime
          \/ sleep_state.last_autosleep # NoTime

\* C16 happens: the client was put to sleep by a Passive tick, and a later
\* tick has woken it, delivered start and is about to restart the idle
\* timer.
WokenByTick ==
    \E t \in Threads :
        /\ pc[t] = "tick_passive_woken"
        /\ mode = "Passive"
        /\ liveness
        /\ notified.last = "start"
        /\ sleep_state.last_autosleep >= IdleTimeout + 1
        /\ \A u \in Threads \ {t} : ModeIdle(u)

\* C17: Dark idle sleep.  With the mode Dark throughout, a client that is
\* awake has its idle timer running whenever no call is under way, so that
\* the tick that finds now > last_activity + IdleTimeout and the queue
\* drained puts it to sleep, an earlier tick's sleep having been refused on
\* a busy queue or not.
DarkIdleTimerRuns ==
    (mode = "Dark" /\ liveness /\ \A t \in Threads : ModeIdle(t)) =>
        sleep_state.last_activity # NoTime

\* C18: keep_alive wakes.  In Dark and Passive, once keep_alive has
\* returned the client is awake and last_activity is set, until the idle
\* timeout counted from the call has run out, a tick that was putting the
\* client to sleep at the same time notwithstanding; in Active and Off
\* keep_alive has changed nothing.
KeepAliveWakes ==
    \A t \in Threads :
        (pc[t] = "keep_alive_returned" /\ mloc[t].mode \in {"Dark", "Passive"}) =>
            \/ liveness /\ sleep_state.last_activity # NoTime
            \/ /\ sleep_state.last_activity # NoTime
               /\ now > sleep_state.last_activity + IdleTimeout
            \/ /\ sleep_state.last_activity = NoTime
               /\ now > IdleTimeout

\* A wake_up or a sleep has stored the liveness flag and not yet delivered
\* its notification.
NotificationDue == \E t \in Threads : pc[t] \in {"wake_up_notify", "sleep_notify"}

\* C19: start and stop strictly alternate, no two starts and no two stops
\* in a row, under every interleaving of tick, keep_alive and set_mode, and
\* whenever a notification was delivered and none is due the liveness flag
\* tells whether the last one delivered was start.
StartStopAlternate ==
    /\ ~notified.repeated
    /\ (notified.last # "none" /\ ~NotificationDue) =>
           (liveness <=> notified.last = "start")

(***************************************************************************)
(* The transaction counter                                                 *)
(***************************************************************************)
\* C21: backpressure.  While the messages the channel holds carry more than
\* MAX_TX_QUEUE_SIZE transactions, that is, more than that many are queued
\* and not yet imported, a queue_transactions call that begins goes no
\* further than its check of the counter: it does not reach the send.
BackpressureHolds ==
    [][\A t \in Threads :
          (pc[t] = "idle" /\ pc'[t] = "qt_send")
              => TxIn(io_channel) <= MAX_TX_QUEUE_SIZE]_vars

(***************************************************************************)
(* Readers                                                                 *)
(***************************************************************************)
\* C22: a call at BlockID::Latest that runs while blocks are committed
\* executes under the environment of the block whose state it uses: the
\* header the environment was built from and the header the state was
\* opened on are the same block, the old tip or the new one.
CallSeesOneTip ==
    \A t \in Threads :
        pc[t] = "call_transact" => loc[t].env = loc[t].blk

\* C23 as stated: state_at(Number(n)) is None for the blocks older than
\* best_block_number - history and is the state for every canonical block
\* from best_block_number - history up to the tip.
StateAtBoundaryInclusive ==
    \A t \in Threads :
        pc[t] = "sa_done" =>
            LET l == loc[t]
            IN  /\ l.idx < l.tip - history => l.ret = "None"
                /\ (l.blk # NoHash /\ l.tip - history <= l.idx /\ l.idx <= l.tip)
                       => l.ret = "Some"

\* C23, amended: state_at(Number(n)) is None for every block numbered
\* best_block_number - history or less, and is the state for every
\* canonical block above best_block_number - history up to the tip as long
\* as no block numbered n + history or more was committed on any branch.
StateAtBoundary ==
    \A t \in Threads :
        pc[t] = "sa_done" =>
            LET l == loc[t]
            IN  /\ l.idx <= l.tip - history => l.ret = "None"
                /\ (/\ l.blk # NoHash
                    /\ l.tip - history < l.idx /\ l.idx <= l.tip
                    /\ db.latest_era < l.idx + history)
                       => l.ret = "Some"

\* C23 happens: with the chain at its full height one call finds the block
\* at the boundary pruned while another is given the state of the block
\* above it.
StateAtBothSides ==
    /\ pc["t1"] = "sa_done" /\ pc["t2"] = "sa_done"
    /\ loc["t1"].tip = TrunkLen /\ loc["t2"].tip = TrunkLen
    /\ loc["t1"].idx = TrunkLen - history /\ loc["t1"].ret = "None"
    /\ loc["t2"].idx = TrunkLen - history + 1 /\ loc["t2"].ret = "Some"

(***************************************************************************)
(* The pruning history                                                     *)
(***************************************************************************)
\* The prune step of the batch staged for block b over database d: era
\* Number(b) - history is marked canonical with the hash the chain store
\* records for that height.
PrunesOwnEra(d, batch, b) ==
    \E i \in 1..Len(batch) :
        /\ batch[i].op = "canon"
        /\ batch[i].era = Number(b) - history
        /\ batch[i].hash = d.hashes[Number(b) - history]

\* C24: every commit of a block numbered history or more marks era
\* number - history canonical with the hash the chain store records for
\* that height; once the chain has reached height history the journal
\* spans at most history eras; the history in use is MIN_HISTORY_SIZE at
\* least.
HistoryWindow ==
    /\ history >= MIN_HISTORY_SIZE
    /\ \A t \in Threads :
           (pc[t] = "cb_write" /\ Number(loc[t].blk) >= history)
               => PrunesOwnEra(db, loc[t].batch, loc[t].blk)
    /\ (best_block_number >= history /\ db.journal # {})
           => db.latest_era - earliest_era(db) <= history

(***************************************************************************)
(* The ancestry gate                                                       *)
(***************************************************************************)
\* The thread handles the current block of its batch in this step.
Handles(t) ==
    /\ InLoop(t)
    /\ Parent(CurrentBlock(t)) \notin loc[t].invalid_blocks
    /\ \/ loc'[t].idx = loc[t].idx + 1
       \/ pc'[t] = "cb_sync"

\* C25: a pre-verified block is rejected by the ancestry gate, it becomes
\* invalid and nothing is executed or committed, when best_block_number >=
\* history and its number is best_block_number - history or less; a block
\* that is rejected otherwise is rejected for another reason (unknown
\* parent, parent state missing, failed execution), so that below history
\* no block is rejected for its age.
AncestryGate ==
    [][\A t \in Threads :
          Handles(t) =>
              LET b == CurrentBlock(t)
                  old == /\ best_block_number >= history
                         /\ Number(b) <= best_block_number - history
              IN  /\ old => /\ b \in loc'[t].invalid_blocks
                            /\ pc'[t] = "ivb_loop"
                            /\ UNCHANGED <<db, chain, last_hashes, report>>
                  /\ (~old /\ b \in loc'[t].invalid_blocks)
                         => \/ ~is_known(Parent(b))
                            \/ Parent(b) \notin db.roots
                            \/ ~ExecOk(b)]_vars

\* C25 happens: a block is in the invalid set of a running import, too old
\* for the chain as it stands, with its parent in the chain.
AncientRejected ==
    \E t \in Threads :
        /\ pc[t] = "ivb_loop"
        /\ \E b \in loc[t].invalid_blocks :
               /\ best_block_number >= history
               /\ Number(b) <= best_block_number - history
               /\ is_known(Parent(b))

(***************************************************************************)
(* import_sealed_block                                                     *)
(***************************************************************************)
\* C26: import_sealed_block commits the block under the import lock, no
\* cache sync it makes moves the canonical state cache (every sync is made
\* with is_canon = false), and it delivers one notification with
\* imported = [h], invalid = [] and sealed = [h].
SealedImportSyncsNonCanon ==
    [][\A t \in Threads :
          loc[t].caller = "import_sealed_block" =>
              /\ pc[t] \in {"cb_sync", "cb_write", "cb_commit", "cb_hashes", "isb_sync"}
                     => import_lock = t
              /\ (pc[t] \in {"cb_sync", "isb_sync"} /\ pc'[t] # pc[t])
                     => state_cache' = state_cache
              /\ (pc[t] = "isb_notify" /\ pc'[t] # pc[t])
                     => /\ ~loc[t].notification.sent
                        /\ loc'[t].notification.sent
                        /\ loc'[t].notification.imported = <<loc[t].blk>>
                        /\ loc'[t].notification.invalid = {}
                        /\ loc'[t].notification.sealed = <<loc[t].blk>>]_vars

(***************************************************************************)
(* The account provider                                                    *)
(***************************************************************************)
\* Thread t asks for the password of account a in this step: a sign or a
\* decrypt without a password.
AsksPassword(t, a) ==
    /\ pc[t] = "idle"
    /\ pc'[t] \in {"sg_sstore", "acc_done"}
    /\ aloc'[t].op \in {"sign", "decrypt"}
    /\ aloc'[t].account = a
    /\ aloc'[t].unlock # "given"

\* Thread t completes a successful unlock of the kind in this step.
Unlocks(t, kind) ==
    /\ pc[t] = "ua_insert"
    /\ pc'[t] = "acc_done"
    /\ aloc[t].unlock = kind

\* The behaviour of an entry of the map under sign and decrypt: a temporary
\* entry gives its password once and is removed, and a locked account is
\* NotUnlocked and stays locked.
SingleUse(t, a) ==
    /\ (unlocked[a].unlock = "Temp" /\ AsksPassword(t, a))
           => /\ pc'[t] = "sg_sstore"
              /\ aloc'[t].password = unlocked[a].password
              /\ unlocked'[a] = Locked
    /\ (unlocked[a].unlock = "none" /\ AsksPassword(t, a))
           => /\ pc'[t] = "acc_done"
              /\ aloc'[t].ret = "NotUnlocked"
              /\ unlocked'[a] = Locked

\* C27 as stated: every successful unlock_account_temporarily leaves the
\* account unlocked for a single use.
TempUnlockSingleUse ==
    [][\A t \in Threads, a \in Accounts :
          /\ (Unlocks(t, "Temp") /\ aloc[t].account = a)
                 => unlocked'[a].unlock = "Temp"
          /\ SingleUse(t, a)]_vars

\* C27, amended: a successful unlock_account_temporarily of an account that
\* is not unlocked permanently leaves a temporary entry with the password;
\* the first sign or decrypt without a password that finds the entry takes
\* the password and removes the entry, and a sign or decrypt that finds no
\* entry fails with NotUnlocked, so that of several signers one at most
\* obtains the password.  A permanently unlocked account stays as it is.
TempUnlockSingleUseUnlessPerm ==
    [][\A t \in Threads, a \in Accounts :
          /\ (Unlocks(t, "Temp") /\ aloc[t].account = a)
                 => IF unlocked[a].unlock = "Perm"
                    THEN unlocked'[a] = unlocked[a]
                    ELSE unlocked'[a] = [unlock |-> "Temp", end |-> NoTime,
                                         password |-> aloc[t].password]
          /\ SingleUse(t, a)]_vars

\* C27 happens: of two signers after a temporary unlock one has signed with
\* the password of the entry and the other was told NotUnlocked.
OneSignerServed ==
    /\ pc["t1"] = "acc_done" /\ pc["t2"] = "acc_done"
    /\ aloc["t1"].op = "sign" /\ aloc["t1"].unlock = "Temp" /\ aloc["t1"].ret = "Ok"
    /\ aloc["t2"].op = "sign" /\ aloc["t2"].ret = "NotUnlocked"
    /\ aloc["t1"].account = aloc["t2"].account
    /\ unlocked[aloc["t1"].account] = Locked

\* The entry of a permanently unlocked account stays Perm, whatever is
\* called, and gives its password to every sign and decrypt.
PermStays(t, a) ==
    /\ unlocked[a].unlock = "Perm" => unlocked'[a].unlock = "Perm"
    /\ (Unlocks(t, "Perm") /\ aloc[t].account = a) => unlocked'[a].unlock = "Perm"
    /\ (unlocked[a].unlock = "Perm" /\ AsksPassword(t, a)) => pc'[t] = "sg_sstore"

\* C28: a permanently unlocked account stays permanently unlocked, no later
\* unlock downgrades its entry and no signature removes it, and a sign
\* without a password that follows a successful unlock_account_permanently
\* made with the password of the account is given a password the secret
\* store accepts: it succeeds.
PermUnlockSticky ==
    [][\A t \in Threads, a \in Accounts :
          /\ PermStays(t, a)
          /\ \A u \in Threads \ {t} :
                 (/\ pc[u] = "acc_done"
                  /\ aloc[u].op = "unlock" /\ aloc[u].unlock = "Perm"
                  /\ aloc[u].account = a /\ aloc[u].ret = "Ok"
                  /\ sstore_accepts(sstore, a, aloc[u].password)
                  /\ AsksPassword(t, a))
                     => sstore_accepts(sstore, a, aloc'[t].password)]_vars

\* The part of C28 that holds.
PermEntrySticky ==
    [][\A t \in Threads, a \in Accounts : PermStays(t, a)]_vars

\* The behaviour of a timed entry under sign and decrypt: up to its
\* deadline it gives its password and stays; past its deadline the call is
\* told NotUnlocked and the entry is removed.
Expires(t, a) ==
    (unlocked[a].unlock = "Timed" /\ AsksPassword(t, a))
        => IF now > unlocked[a].end
           THEN /\ pc'[t] = "acc_done"
                /\ aloc'[t].ret = "NotUnlocked"
                /\ unlocked'[a] = Locked
           ELSE /\ pc'[t] = "sg_sstore"
                /\ aloc'[t].password = unlocked[a].password
                /\ unlocked'[a] = unlocked[a]

\* C29 as stated: every successful unlock_account_timed leaves the account
\* unlocked up to the deadline of the call and no longer.
TimedUnlockExpires ==
    [][\A t \in Threads, a \in Accounts :
          /\ (Unlocks(t, "Timed") /\ aloc[t].account = a)
                 => /\ unlocked'[a].unlock = "Timed"
                    /\ unlocked'[a].end = aloc[t].end
          /\ Expires(t, a)]_vars

\* C29, amended: a successful unlock_account_timed of an account that is not
\* unlocked permanently leaves a timed entry whose deadline is the time of
\* the call plus the duration; a sign or decrypt without a password that
\* finds the entry up to the deadline is given the password and leaves the
\* entry, one that finds it past the deadline fails with NotUnlocked and
\* removes it.  A permanently unlocked account stays as it is.
TimedUnlockExpiresUnlessPerm ==
    [][\A t \in Threads, a \in Accounts :
          /\ (Unlocks(t, "Timed") /\ aloc[t].account = a)
                 => IF unlocked[a].unlock = "Perm"
                    THEN unlocked'[a] = unlocked[a]
                    ELSE unlocked'[a] = [unlock |-> "Timed", end |-> aloc[t].end,
                                         password |-> aloc[t].password]
          /\ Expires(t, a)]_vars

\* C29 happens: one call has signed with the password of a timed entry, and
\* a call that found a timed entry past its deadline was told NotUnlocked
\* and has left the account locked.
TimedEntryExpired ==
    /\ pc["t1"] = "acc_done" /\ pc["t2"] = "acc_done"
    /\ aloc["t1"].op = "sign" /\ aloc["t1"].unlock = "Timed" /\ aloc["t1"].ret = "Ok"
    /\ aloc["t2"].op = "sign" /\ aloc["t2"].unlock = "Timed"
    /\ aloc["t2"].ret = "NotUnlocked" /\ aloc["t2"].end < now
    /\ aloc["t1"].account = aloc["t2"].account
    /\ unlocked[aloc["t2"].account] = Locked

\* C30: an unlock attempt of any kind with a password the secret store does
\* not accept for the account returns an error and leaves the unlocked map
\* as it was.
WrongPasswordChangesNothing ==
    [][\A t \in Threads :
          (/\ pc[t] = "idle" /\ pc'[t] # "idle"
           /\ aloc'[t].op = "unlock"
           /\ ~sstore_accepts(sstore, aloc'[t].account, aloc'[t].password))
              => /\ pc'[t] = "acc_done"
                 /\ aloc'[t].ret = "SStore"
                 /\ unlocked' = unlocked]_vars

\* C30 happens: an unlock with the wrong password was refused while the
\* account was unlocked with a deadline, and the entry is as it was.
WrongPasswordRefused ==
    \E t \in Threads :
        /\ pc[t] = "acc_done"
        /\ aloc[t].op = "unlock" /\ aloc[t].ret = "SStore"
        /\ ~sstore_accepts(sstore, aloc[t].account, aloc[t].password)
        /\ unlocked[aloc[t].account].unlock = "Timed"
        /\ aloc[t].unlock = "Perm"

(***************************************************************************)
(* take_snapshot at the latest block                                       *)
(***************************************************************************)
\* C31: take_snapshot at BlockID::Latest starts the snapshot the look-back
\* distance (1000 blocks, the pruning history at most) behind the best
\* block, the journal's earliest era at least, and the computation of the
\* start number never underflows, also when the chain is shorter than the
\* look-back distance.
SnapshotStartNoUnderflow ==
    \A t \in Threads :
        (pc[t] \in {"ts_hash", "ts_done"} /\ loc[t].caller = "take_snapshot") =>
            /\ loc[t].ret # "Panic"
            /\ loc[t].idx >= 0
            /\ loc[t].idx >= loc[t].tip - snapshot_history
            /\ loc[t].idx <= loc[t].tip


(***************************************************************************)
(* The order of the steps of commit_block                                  *)
(***************************************************************************)
\* The step of thread t from position p to position q.
StepFrom(t, p, q) == pc[t] = p /\ pc'[t] = q

\* The block commit_block is committing is the last of its route's enacted
\* blocks.
CommitsCanon(t) ==
    /\ loc[t].route.enacted # << >>
    /\ loc[t].route.enacted[Len(loc[t].route.enacted)] = loc[t].blk

\* C32: for every block committed by commit_block the steps happen in the
\* order write_buffered, chain.commit(), sync_cache, update of the
\* last-hashes window: the chain is committed only after the batch is
\* buffered, the state cache is synced only for a block whose batch is
\* buffered and whose chain commit has happened, and the window is updated
\* after all three.
CommitStepOrder ==
    [][\A t \in Threads :
          /\ StepFrom(t, "cb_commit", "cb_hashes") =>
                 loc[t].blk \in loc[t].buffered
          /\ StepFrom(t, "cb_sync", "cb_write") =>
                 /\ loc[t].blk \in loc[t].buffered
                 /\ loc[t].blk \in loc[t].published
          /\ (pc[t] = "cb_hashes" /\ pc'[t] # "cb_hashes") =>
                 /\ loc[t].blk \in loc[t].buffered
                 /\ loc[t].blk \in loc[t].published
                 /\ CommitsCanon(t) => state_cache.canon = loc[t].blk]_vars

(***************************************************************************)
(* The aggregation of the import routes                                    *)
(***************************************************************************)
\* The hashes that occur in the routes rs.
Occurring(rs) ==
    UNION {Range(rs[k].enacted) \cup Range(rs[k].retracted) : k \in 1..Len(rs)}

\* The last occurrence of hash h in the routes rs is in an enacted list
\* (v = TRUE) or in a retracted list (v = FALSE); within one route the
\* enacted list is read before the retracted list.
LastOccurrenceIn(rs, h, v) ==
    \E k \in 1..Len(rs) :
        /\ IF v THEN h \in Range(rs[k].enacted) /\ h \notin Range(rs[k].retracted)
                ELSE h \in Range(rs[k].retracted)
        /\ \A j \in (k + 1)..Len(rs) :
               h \notin Range(rs[j].enacted) \cup Range(rs[j].retracted)

\* C33: for any sequence of import routes a hash ends in the final enacted
\* set iff its last occurrence is in an enacted list and in the final
\* retracted set iff its last occurrence is in a retracted list; every hash
\* that occurs in a route ends in exactly one of the two sets.
LastOccurrenceWins ==
    \A t \in Threads :
        pc[t] = "cer_done" =>
            LET rs == loc[t].import_results
                n  == loc[t].notification
            IN  /\ \A h \in Blocks :
                       /\ h \in n.enacted <=> LastOccurrenceIn(rs, h, TRUE)
                       /\ h \in n.retracted <=> LastOccurrenceIn(rs, h, FALSE)
                /\ n.enacted \cup n.retracted = Occurring(rs)
                /\ n.enacted \cap n.retracted = {}

\* A block enacted by one insertion and retracted by the next ends as
\* retracted.
EnactedThenRetractedEndsRetracted ==
    /\ pc["t1"] = "cer_done"
    /\ loc["t1"].import_results =
           <<[enacted |-> <<TrunkAt(InitHeight)>>, retracted |-> << >>],
             [enacted |-> <<TipSide>>, retracted |-> <<TrunkAt(InitHeight)>>]>>
    /\ loc["t1"].notification.enacted = {TipSide}
    /\ loc["t1"].notification.retracted = {TrunkAt(InitHeight)}

(***************************************************************************)
(* The cached last-hashes window                                           *)
(***************************************************************************)
\* The first n entries of the sequence s, all of it when it is shorter.
Prefix(s, n) == SubSeq(s, 1, Min(Len(s), n))

\* The window a walk over the parents from hash h gives: h, its parent and
\* so on while the chain store has the details, zero-padded to 256 entries.
FreshWalk(h) ==
    [hashes |-> Prefix(WalkParents(h, db.details), LAST_HASHES_LEN),
     len |-> LAST_HASHES_LEN]

\* C34: update_last_hashes(parent, hash) changes the cached window only when
\* parent is the window's front: hash becomes the new front and the oldest
\* entry is dropped when the window is full; otherwise the window is left as
\* it is, and a build_last_hashes for a hash that is not the front replaces
\* it by the walk from that hash. The window never holds more than 256
\* entries.
LastHashesWindow ==
    [][/\ \A t \in Threads :
            (pc[t] = "cb_hashes" /\ pc'[t] # "cb_hashes") =>
                IF FrontIs(last_hashes, Parent(loc[t].blk))
                THEN /\ last_hashes'.hashes =
                            <<loc[t].blk>> \o Prefix(last_hashes.hashes, LAST_HASHES_LEN - 1)
                     /\ last_hashes'.len = Min(last_hashes.len + 1, LAST_HASHES_LEN)
                ELSE last_hashes' = last_hashes
       /\ (last_hashes' # last_hashes /\ \A t \in Threads : pc[t] # "cb_hashes") =>
              /\ last_hashes'.hashes # << >>
              /\ ~FrontIs(last_hashes, last_hashes'.hashes[1])
              /\ last_hashes' = FreshWalk(last_hashes'.hashes[1])
       /\ last_hashes'.len <= LAST_HASHES_LEN
       /\ Len(last_hashes'.hashes) <= last_hashes'.len]_vars

\* A commit has pushed its block onto a full window whose front was the
\* block's parent.
WindowExtended ==
    \E t \in Threads :
        /\ pc[t] \in {"ivb_accrue", "isb_sync"}
        /\ last_hashes.len = LAST_HASHES_LEN
        /\ Len(last_hashes.hashes) >= 2
        /\ last_hashes.hashes[1] = loc[t].blk
        /\ last_hashes.hashes[2] = Parent(loc[t].blk)

\* C35: in every reachable state build_last_hashes(h) answered from the
\* cached window gives the list a walk over the block_details parents from
\* h would give at that moment (h, its parent and so on, zero-padded where
\* no parent is known), after any interleaving of imports, old-block
\* backfill, restores and readers; h is a block of the chain.
LastHashesCoherent ==
    \A h \in Blocks :
        (is_known(h) /\ FrontIs(last_hashes, h)) => last_hashes = FreshWalk(h)

(***************************************************************************)
(* The chain events of import_verified_blocks                              *)
(***************************************************************************)
\* C36: no chain event is lost: every block a call of import_verified_blocks
\* has committed is reported to the miner and to the subscribers, in the
\* imported list of a new_blocks notification, also when the batch left the
\* block queue non-empty. The lists of imported blocks and routes are
\* locals of the call: what the call has not reported when it returns no
\* later notification holds.
CommittedBlocksReported ==
    \A t \in Threads :
        (pc[t] = "flush" /\ loc[t].caller = "import_verified_blocks") =>
            \A b \in Range(loc[t].imported_blocks) :
                /\ loc[t].notification.sent
                /\ b \in Range(loc[t].notification.imported)

(***************************************************************************)
(* Deadlock freedom                                                        *)
(***************************************************************************)
\* Thread t is at an acquisition that thread u keeps it from.
WaitsFor(t, u) ==
    \/ pc[t] \in {"rd_state_db", "po_state_db", "cc_state_db"} /\ locks.state_db = u
    \/ pc[t] = "rd_chain" /\ (locks.chain_writer = u \/ locks.chain_readers[u] > 0)
    \/ pc[t] \in {"po_build", "tr_address", "cc_chain"} /\ locks.chain_writer = u
    \/ pc[t] = "rd_tracedb" /\ locks.tracedb = u
    \/ pc[t] = "rd_db" /\ locks.kvdb = u

\* C37: no interleaving of restore_db with imports, read queries and
\* prepare_open_block reaches a state where threads wait for each other
\* forever, which is what taking the locks in an order compatible with
\* restore_db's (import lock, state DB, chain, trace DB, db) is to provide.
DeadlockFree ==
    \A t, u \in Threads : t # u => ~(WaitsFor(t, u) /\ WaitsFor(u, t))

(***************************************************************************)
(* The queued-transaction counter                                          *)
(***************************************************************************)
\* C38: the counter of queued transactions is exact and never wraps: it is
\* never below zero (a number below zero stands for the wrapped value of the
\* unsigned counter), and whenever no queue_transactions call is between
\* its send and its fetch_add it is the number of transactions sent to the
\* IO channel and not yet handed to import_queued_transactions.
TxCounterExact ==
    /\ queue_transactions >= 0
    /\ (\A t \in Threads : pc[t] # "qt_add") => queue_transactions = TxIn(io_channel)

(***************************************************************************)
(* A successful unlock is usable                                           *)
(***************************************************************************)
\* Thread t's unlock_account returns Ok in this step; the password it gave
\* is the account's password in the secret store and, for a timed unlock,
\* the deadline has not passed.
UnlockReturnsOk(t) ==
    /\ pc[t] = "ua_insert" /\ pc'[t] = "acc_done"
    /\ aloc'[t].ret = "Ok"
    /\ sstore_accepts(sstore, aloc[t].account, aloc[t].password)
    /\ aloc[t].unlock = "Timed" => now <= aloc[t].end

\* C39: immediately after unlock_account_permanently, _temporarily or _timed
\* has returned Ok, sign(account, None, message) succeeds: the unlocked set
\* has a password for the account and the secret store accepts it, whatever
\* unlock, sign and change_password calls came before.
UnlockUsable ==
    [][\A t \in Threads :
          UnlockReturnsOk(t) =>
              LET r == password(unlocked', aloc[t].account, now)
              IN  r.ok /\ sstore_accepts(sstore', aloc[t].account, r.password)]_vars

(***************************************************************************)
(* is_unlocked and signing                                                 *)
(***************************************************************************)
\* Thread t calls is_unlocked, or sign with a password, in this step.
AsksIsUnlocked(t) ==
    pc[t] = "idle" /\ pc'[t] = "acc_done" /\ aloc'[t].op = "is_unlocked"
SignsWithPassword(t) ==
    pc[t] = "idle" /\ pc'[t] = "sg_sstore" /\ aloc'[t].unlock = "given"

\* C40: is_unlocked(account) answers true if and only if a sign(account,
\* None, message) made at once would obtain the stored password and not
\* fail with NotUnlocked, a timed unlock whose deadline has passed included;
\* is_unlocked and a sign with a password leave the unlocked set as it is.
IsUnlockedAgreesWithSign ==
    [][\A t \in Threads :
          /\ AsksIsUnlocked(t) =>
                 /\ (aloc'[t].ret = "true") <=>
                        password(unlocked, aloc'[t].account, now).ok
                 /\ unlocked' = unlocked
          /\ SignsWithPassword(t) => unlocked' = unlocked]_vars

=============================================================================
